---- MODULE Spec2Model ----
(***************************************************************************)
(* A model of parts of the saturation prover: the backtrackable            *)
(* substitution (Kernel/RobSubstitution.cpp), the literal index            *)
(* (Indexing/LiteralSubstitutionTree.cpp), the Active clause container     *)
(* (Saturation/ClauseContainer.cpp), the Otter loop's simplification       *)
(* container (Saturation/Otter.cpp), the schedule executor                 *)
(* (CASC/ScheduleExecutor.cpp) and the Knuth-Bendix ordering               *)
(* (Kernel/KBO.cpp, Kernel/Ordering.cpp).                                  *)
(***************************************************************************)
EXTENDS Integers, Sequences, FiniteSets, Bags, TLC

VARIABLES
  bank,          \* RobSubstitution::_bank: VarSpec -> TermSpec (partial)
  nextUnbound,   \* RobSubstitution::_nextUnboundAvailable
  call,          \* the last call on the substitution: operation, inputs, result
  nodes,         \* SubstitutionTree::_nodes: header -> root node
  present,       \* the (clause, literal) records inserted and not removed since
  sat,           \* the Otter saturation algorithm: clause stores, containers, limits
  satCfg,        \* its inputs: the clauses' age and weight, the generating index
  sched,         \* ScheduleExecutor::run: its locals, the clock and the worker processes
  kbo,           \* the KBO ordering's precedences and the last comparison made
  litCmp,        \* the literal ordering and the last comparison of two literals
  qry,           \* the last retrieval from the literal index and its results
  selection,     \* the last literal selection: the clause before and after, the selected count
  infer,         \* the last generating inference: its premises, the checks made, the clause produced
  demod,         \* forward demodulation: the demodulator index, the options, the last simplification
  gsub,          \* the SAT solver of global subsumption and the last perform
  weighing,      \* the weight bookkeeping of the last superposition conclusion
  assoc,         \* an AssocIterator and the substitution it works on
  stk,           \* a Stack and the StableDelIterator that traverses it
  refs,          \* the ReferenceCounter objects and their counters
  arith          \* a call of Int::safeMultiply and the variable it stores to

robVars == <<bank, nextUnbound, call>>
indexVars == <<nodes, present>>
satVars == <<sat, satCfg>>

vars == <<bank, nextUnbound, call, nodes, present, sat, satCfg, sched, kbo, litCmp, qry, selection, infer, demod, gsub, weighing, assoc, stk, refs, arith>>

\* the variables of the components other than the named one
notRobVars == <<indexVars, satVars, sched, kbo, litCmp, qry, selection, infer, demod, gsub, weighing, assoc, stk, refs, arith>>
notIndexVars == <<robVars, satVars, sched, kbo, litCmp, qry, selection, infer, demod, gsub, weighing, assoc, stk, refs, arith>>
notSatVars == <<robVars, indexVars, sched, kbo, litCmp, qry, selection, infer, demod, gsub, weighing, assoc, stk, refs, arith>>
notSchedVars == <<robVars, indexVars, satVars, kbo, litCmp, qry, selection, infer, demod, gsub, weighing, assoc, stk, refs, arith>>
notKboVars == <<robVars, indexVars, satVars, sched, litCmp, qry, selection, infer, demod, gsub, weighing, assoc, stk, refs, arith>>
notLitVars == <<robVars, indexVars, satVars, sched, kbo, qry, selection, infer, demod, gsub, weighing, assoc, stk, refs, arith>>
notQryVars == <<robVars, indexVars, satVars, sched, kbo, litCmp, selection, infer, demod, gsub, weighing, assoc, stk, refs, arith>>
notSelVars == <<robVars, indexVars, satVars, sched, kbo, litCmp, qry, infer, demod, gsub, weighing, assoc, stk, refs, arith>>
notInfVars == <<robVars, indexVars, satVars, sched, kbo, litCmp, qry, selection, demod, gsub, weighing, assoc, stk, refs, arith>>
notDemVars == <<robVars, indexVars, satVars, sched, kbo, litCmp, qry, selection, infer, gsub, weighing, assoc, stk, refs, arith>>
notGsVars == <<robVars, indexVars, satVars, sched, kbo, litCmp, qry, selection, infer, demod, weighing, assoc, stk, refs, arith>>
notWgtVars == <<robVars, indexVars, satVars, sched, kbo, litCmp, qry, selection, infer, demod, gsub, assoc, stk, refs, arith>>
notAssocVars == <<robVars, indexVars, satVars, sched, kbo, litCmp, qry, selection, infer, demod, gsub, weighing, stk, refs, arith>>
notStkVars == <<robVars, indexVars, satVars, sched, kbo, litCmp, qry, selection, infer, demod, gsub, weighing, assoc, refs, arith>>
notRcVars == <<robVars, indexVars, satVars, sched, kbo, litCmp, qry, selection, infer, demod, gsub, weighing, assoc, stk, arith>>
notMulVars == <<robVars, indexVars, satVars, sched, kbo, litCmp, qry, selection, infer, demod, gsub, weighing, assoc, stk, refs>>

(***************************************************************************)
(* Terms.  A TermList is a variable or a shared term f(args).              *)
(***************************************************************************)
Var(n) == [isVar |-> TRUE, id |-> n, args |-> <<>>]
Fn(f, as) == [isVar |-> FALSE, id |-> f, args |-> as]

\* functors of the modelled signature: the constants a, b and the ternary h
FunA == 0
FunB == 1
FunH == 2

RECURSIVE TermVars(_)
TermVars(t) ==
  IF t.isVar THEN {t.id}
  ELSE UNION {TermVars(t.args[i]) : i \in 1..Len(t.args)}

\* Term::ground()
Ground(t) == TermVars(t) = {}

\* TermList::sameTopFunctor
sameTopFunctor(ss, tt) ==
  IF ss.isVar \/ tt.isVar THEN FALSE ELSE ss.id = tt.id

\* a special variable, as the internal terms of a substitution tree have
SpecialVar(n) == [isVar |-> TRUE, id |-> n, args |-> <<>>, special |-> TRUE]
\* TermList::isSpecialVar, TermList::isOrdinaryVar
isSpecialVar(t) == t.isVar /\ "special" \in DOMAIN t
isOrdinaryVar(t) == t.isVar /\ ~isSpecialVar(t)

(***************************************************************************)
(* RobSubstitution                                                         *)
(***************************************************************************)
SPECIAL_INDEX == -2
UNBOUND_INDEX == -1

VarSpec(v, i) == [var |-> v, index |-> i]
TermSpec(t, i) == [term |-> t, index |-> i]

\* TermSpec(VarSpec): the variable as a term specification
VarTermSpec(v) ==
  TermSpec(IF v.index = SPECIAL_INDEX THEN SpecialVar(v.var) ELSE Var(v.var), v.index)
\* getVarSpec(TermSpec)
getVarSpec(ts) ==
  IF isSpecialVar(ts.term) THEN VarSpec(ts.term.id, SPECIAL_INDEX)
  ELSE VarSpec(ts.term.id, ts.index)

\* TermSpec::sameTermContent
sameTermContent(a, b) ==
  /\ a.term = b.term
  /\ \/ a.index = b.index
     \/ isSpecialVar(a.term)
     \/ (~a.term.isVar /\ (Ground(a.term) \/ Len(a.term.args) = 0))

\* DHMap::find on _bank
Found(bk, v) == v \in DOMAIN bk

\* DHMap::set on _bank
BankSet(bk, v, b) == [x \in (DOMAIN bk) \cup {v} |-> IF x = v THEN b ELSE bk[x]]
\* DHMap::remove on _bank
BankRemove(bk, v) == [x \in (DOMAIN bk) \ {v} |-> bk[x]]

RECURSIVE isUnbound(_, _)
isUnbound(bk, v) ==
  IF ~Found(bk, v) \/ bk[v].index = UNBOUND_INDEX THEN TRUE
  ELSE IF ~bk[v].term.isVar THEN FALSE
  ELSE isUnbound(bk, getVarSpec(bk[v]))

RECURSIVE derefBoundVar(_, _)
derefBoundVar(bk, v) ==
  IF ~Found(bk, v) \/ bk[v].index = UNBOUND_INDEX THEN VarTermSpec(v)
  ELSE IF ~bk[v].term.isVar THEN bk[v]
  ELSE derefBoundVar(bk, getVarSpec(bk[v]))

derefBound(bk, t) ==
  IF ~t.term.isVar THEN t ELSE derefBoundVar(bk, getVarSpec(t))

RECURSIVE root(_, _)
root(bk, v) ==
  IF ~Found(bk, v) \/ bk[v].index = UNBOUND_INDEX \/ ~bk[v].term.isVar THEN v
  ELSE root(bk, getVarSpec(bk[v]))

\* BindingBacktrackObject: the binding of v at the time of the bind
BindingBacktrackObject(bk, v) ==
  [v |-> v, found |-> Found(bk, v),
   old |-> IF Found(bk, v) THEN bk[v] ELSE VarTermSpec(v)]

\* bind that sets the binding and records nothing
bindNoRecord(s, v, b, rec) == [s EXCEPT !.bank = BankSet(s.bank, v, b)]

\* RobSubstitution::bind on s = [bank, log, ...]; rec is bdIsRecording()
bind(s, v, b, rec) ==
  [s EXCEPT !.bank = BankSet(s.bank, v, b),
            !.log = IF rec THEN <<BindingBacktrackObject(s.bank, v)>> \o s.log
                    ELSE s.log]

\* BacktrackData::backtrack: undo the recorded bindings, the latest first
RECURSIVE backtrack(_, _)
backtrack(bk, log) ==
  IF log = <<>> THEN bk
  ELSE LET o == Head(log)
       IN backtrack(IF o.found THEN BankSet(bk, o.v, o.old) ELSE BankRemove(bk, o.v),
                    Tail(log))

\* the variable occurrences of a term, in VariableIterator order
RECURSIVE VarSeq(_)
RECURSIVE VarSeqArgs(_, _)
VarSeq(t) == IF t.isVar THEN <<t>> ELSE VarSeqArgs(t.args, 1)
VarSeqArgs(as, i) ==
  IF i > Len(as) THEN <<>> ELSE VarSeq(as[i]) \o VarSeqArgs(as, i + 1)

\* RobSubstitution::occurs: the loop over toDo, ts a non-variable TermSpec
RECURSIVE occursLoop(_, _, _, _, _)
RECURSIVE occursVars(_, _, _, _, _, _, _)
occursLoop(bk, vs, ts, toDo, enc) ==
  occursVars(bk, vs, ts.index, VarSeq(ts.term), 1, toDo, enc)
occursVars(bk, vs, idx, vseq, i, toDo, enc) ==
  IF i > Len(vseq)
  THEN IF toDo = <<>> THEN FALSE
       ELSE occursLoop(bk, vs, toDo[Len(toDo)], SubSeq(toDo, 1, Len(toDo) - 1), enc)
  ELSE LET tvar == root(bk, getVarSpec(TermSpec(vseq[i], idx)))
           dtvar == derefBound(bk, VarTermSpec(tvar))
       IN IF tvar = vs THEN TRUE
          ELSE IF tvar \notin enc /\ ~dtvar.term.isVar
               THEN occursVars(bk, vs, idx, vseq, i + 1, Append(toDo, dtvar), enc \cup {tvar})
               ELSE occursVars(bk, vs, idx, vseq, i + 1, toDo, enc)

occurs(bk, v, ts0) ==
  LET vs == root(bk, v)
      ts == IF ts0.term.isVar THEN derefBound(bk, ts0) ELSE ts0
  IN IF ts.term.isVar THEN FALSE
     ELSE occursLoop(bk, vs, ts, <<>>, {})

(***************************************************************************)
(* RobSubstitution::unify(TermSpec, TermSpec).  The state of a run is      *)
(* s = [bank, log, toDo, subterms, enc, mismatch]: the bank, the local     *)
(* BacktrackData, the two static stacks, the encountered set and the       *)
(* mismatch flag.  A TermList* into an argument array is [args, pos].      *)
(***************************************************************************)
Ptr(as, p) == [args |-> as, pos |-> p]
PtrNext(p) == Ptr(p.args, p.pos + 1)
PtrIsEmpty(p) == p.pos > Len(p.args)
Deref(p) == p.args[p.pos]

Push(stack, x) == Append(stack, x)
Top(stack) == stack[Len(stack)]
Pop(stack) == SubSeq(stack, 1, Len(stack) - 1)

\* the push of a variable/term pair met by the traversal (lines 396-404)
pushPair(s, tsss, tstt) ==
  LET itm == <<tsss, tstt>>
  IN IF \/ (tsss.term.isVar /\ isUnbound(s.bank, getVarSpec(tsss)))
        \/ (tstt.term.isVar /\ isUnbound(s.bank, getVarSpec(tstt)))
     THEN [s EXCEPT !.toDo = Push(s.toDo, itm)]
     ELSE IF itm \notin s.enc
          THEN [s EXCEPT !.toDo = Push(s.toDo, itm), !.enc = s.enc \cup {itm}]
          ELSE s

\* push the next pair of sibling arguments when there is one (lines 390-393, 416-419)
pushNext(stack, ss, tt) ==
  IF ~PtrIsEmpty(PtrNext(ss)) THEN Push(stack, <<PtrNext(ss), PtrNext(tt)>>) ELSE stack

\* unifyInner without the functor-clash test of lines 405-408
RECURSIVE unifyInnerNoClash(_, _, _, _, _)
unifyInnerNoClash(s, ss, tt, i1, i2) ==
  LET S == Deref(ss)
      T == Deref(tt)
      tsss == TermSpec(S, i1)
      tstt == TermSpec(T, i2)
  IN IF ~sameTermContent(tsss, tstt) /\ sameTopFunctor(S, T)
     THEN LET ss1 == Ptr(S.args, 1)
              tt1 == Ptr(T.args, 1)
          IN unifyInnerNoClash([s EXCEPT !.subterms = pushNext(s.subterms, ss1, tt1)],
                               ss1, tt1, i1, i2)
     ELSE LET s1 == IF ~sameTopFunctor(S, T) /\ (S.isVar \/ T.isVar)
                    THEN pushPair(s, tsss, tstt) ELSE s
          IN IF s1.subterms = <<>> THEN s1
             ELSE LET ss2 == Top(s1.subterms)[1]
                      tt2 == Top(s1.subterms)[2]
                  IN unifyInnerNoClash(
                       [s1 EXCEPT !.subterms = pushNext(Pop(s1.subterms), ss2, tt2)],
                       ss2, tt2, i1, i2)

\* the inner traversal of two non-variable terms (lines 376-421)
RECURSIVE unifyInner(_, _, _, _, _)
unifyInner(s, ss, tt, i1, i2) ==
  LET S == Deref(ss)
      T == Deref(tt)
      tsss == TermSpec(S, i1)
      tstt == TermSpec(T, i2)
  IN IF ~sameTermContent(tsss, tstt) /\ sameTopFunctor(S, T)
     THEN LET ss1 == Ptr(S.args, 1)
              tt1 == Ptr(T.args, 1)
          IN unifyInner([s EXCEPT !.subterms = pushNext(s.subterms, ss1, tt1)],
                        ss1, tt1, i1, i2)
     ELSE IF ~sameTopFunctor(S, T) /\ ~(S.isVar \/ T.isVar)
          THEN [s EXCEPT !.mismatch = TRUE,
                         !.pend = IF s.mismatch THEN s.pend ELSE Len(s.toDo)]
          ELSE LET s1 == IF ~sameTopFunctor(S, T) THEN pushPair(s, tsss, tstt) ELSE s
               IN IF s1.subterms = <<>> THEN s1
                  ELSE LET ss2 == Top(s1.subterms)[1]
                           tt2 == Top(s1.subterms)[2]
                       IN unifyInner(
                            [s1 EXCEPT !.subterms = pushNext(Pop(s1.subterms), ss2, tt2)],
                            ss2, tt2, i1, i2)

\* the outer loop over the pairs to unify (lines 353-429)
RECURSIVE unifyLoop(_, _, _)
unifyLoop(s, t1, t2) ==
  LET dt1 == derefBound(s.bank, t1)
      dt2 == derefBound(s.bank, t2)
      cont(s1) == IF s1.toDo = <<>> THEN s1
                  ELSE unifyLoop([s1 EXCEPT !.toDo = Pop(s1.toDo)],
                                 Top(s1.toDo)[1], Top(s1.toDo)[2])
  IN IF sameTermContent(dt1, dt2) THEN cont(s)
     ELSE IF dt1.term.isVar
     THEN IF occurs(s.bank, getVarSpec(dt1), dt2)
          THEN [s EXCEPT !.mismatch = TRUE,
                         !.pend = IF s.mismatch THEN s.pend ELSE Len(s.toDo)]
          ELSE cont(bind(s, getVarSpec(dt1), dt2, TRUE))
     ELSE IF dt2.term.isVar
     THEN IF occurs(s.bank, getVarSpec(dt2), dt1)
          THEN [s EXCEPT !.mismatch = TRUE,
                         !.pend = IF s.mismatch THEN s.pend ELSE Len(s.toDo)]
          ELSE cont(bind(s, getVarSpec(dt2), dt1, TRUE))
     ELSE cont(unifyInner(s, Ptr(<<dt1.term>>, 1), Ptr(<<dt2.term>>, 1),
                          dt1.index, dt2.index))

\* RobSubstitution::unify(TermSpec, TermSpec): [ok, bank, bound, pending].
\* bound is the number of bindings made during the attempt and pending the
\* number of pairs left on toDo when the (first) mismatch was met.
unify(bk, t1, t2) ==
  IF sameTermContent(t1, t2)
  THEN [ok |-> TRUE, bank |-> bk, bound |-> 0, pending |-> 0]
  ELSE LET s0 == [bank |-> bk, log |-> <<>>, toDo |-> <<>>, subterms |-> <<>>,
                  enc |-> {}, mismatch |-> FALSE, pend |-> 0]
           s == unifyLoop(s0, t1, t2)
       IN IF s.mismatch
          THEN [ok |-> FALSE, bank |-> backtrack(s.bank, s.log),
                bound |-> Len(s.log), pending |-> s.pend]
          ELSE [ok |-> TRUE, bank |-> s.bank, bound |-> Len(s.log), pending |-> 0]

(***************************************************************************)
(* RobSubstitution::apply(TermList, int).  A variable is resolved with     *)
(* root(getVarSpec(ts)), so a special variable is looked up in the bank    *)
(* SPECIAL_INDEX whatever the bank of the term is.  deref binds a variable *)
(* with no binding to a fresh variable of the UNBOUND_INDEX bank, so apply *)
(* changes the bank: the result is [term, bank, next].  The map `known`    *)
(* only caches the instance of a variable already built by this call.      *)
(***************************************************************************)
RECURSIVE deref(_, _, _)
\* deref that does not advance _nextUnboundAvailable
derefNoAdvance(bk, next, v) ==
  IF ~Found(bk, v)
  THEN LET binding == TermSpec(Var(next), UNBOUND_INDEX)
       IN [ts |-> binding, bank |-> BankSet(bk, v, binding), next |-> next]
  ELSE IF bk[v].index = UNBOUND_INDEX \/ ~bk[v].term.isVar
       THEN [ts |-> bk[v], bank |-> bk, next |-> next]
       ELSE deref(bk, next, getVarSpec(bk[v]))

\* RobSubstitution::deref(VarSpec): [ts, bank, next]
deref(bk, next, v) ==
  IF ~Found(bk, v)
  THEN LET binding == TermSpec(Var(next), UNBOUND_INDEX)
       IN [ts |-> binding, bank |-> BankSet(bk, v, binding), next |-> next + 1]
  ELSE IF bk[v].index = UNBOUND_INDEX \/ ~bk[v].term.isVar
       THEN [ts |-> bk[v], bank |-> bk, next |-> next]
       ELSE deref(bk, next, getVarSpec(bk[v]))

RECURSIVE apply(_, _, _, _)
RECURSIVE applyArgs(_, _, _, _, _, _)
apply(bk, next, trm, index) ==
  IF trm.isVar
  THEN LET vs == root(bk, getVarSpec(TermSpec(trm, index)))
           d == deref(bk, next, vs)
       IN IF d.ts.term.isVar
          THEN [term |-> d.ts.term, bank |-> d.bank, next |-> d.next]
          ELSE IF Ground(d.ts.term)
               THEN [term |-> d.ts.term, bank |-> d.bank, next |-> d.next]
               ELSE applyArgs(d.bank, d.next, d.ts.term, d.ts.index, 1, <<>>)
  ELSE IF Ground(trm)
       THEN [term |-> trm, bank |-> bk, next |-> next]
       ELSE applyArgs(bk, next, trm, index, 1, <<>>)
\* the arguments of t from the i-th on, left to right; done are the built ones
applyArgs(bk, next, t, index, i, done) ==
  IF i > Len(t.args)
  THEN [term |-> Fn(t.id, done), bank |-> bk, next |-> next]
  ELSE LET r == apply(bk, next, t.args[i], index)
       IN applyArgs(r.bank, r.next, t, index, i + 1, Append(done, r.term))


(***************************************************************************)
(* Literals and the literal index (LiteralSubstitutionTree).               *)
(***************************************************************************)
\* predicates of the modelled signature: equality, p/1, the propositional q, r/2
PredEq == 0
PredP == 1
PredQ == 2
PredR == 3

Lit(p, pos, as) == [pred |-> p, pos |-> pos, args |-> as]

\* Literal::header and Literal::complementaryHeader
header(l) == 2 * l.pred + (IF l.pos THEN 1 ELSE 0)
complementaryHeader(l) == 2 * l.pred + (IF l.pos THEN 0 ELSE 1)

\* Renaming::normalize: the variables renamed to 0, 1, ... in the order of
\* their first occurrence
RECURSIVE Rename(_, _)
Rename(t, vseq) ==
  IF t.isVar
  THEN LET first == CHOOSE i \in 1..Len(vseq) :
                      vseq[i] = t /\ \A j \in 1..(i - 1) : vseq[j] # t
       IN Var(Cardinality({vseq[j] : j \in 1..(first - 1)}))
  ELSE Fn(t.id, [i \in 1..Len(t.args) |-> Rename(t.args[i], vseq)])

normalize(l) ==
  LET vseq == VarSeqArgs(l.args, 1)
  IN Lit(l.pred, l.pos, [i \in 1..Len(l.args) |-> Rename(l.args[i], vseq)])

\* SubstitutionTree::getBindings: special variable i is bound to argument i
getBindings(l) == l.args

LeafData(cls, lit) == [clause |-> cls, literal |-> lit]

\* a root of _nodes: null, a Leaf (of a propositional literal) or an
\* IntermediateNode; leaves maps the bindings that lead to a leaf to the
\* leaf's records
NullNode == [kind |-> "null", leaves |-> <<>>]

\* SubstitutionTree::insert(Node**, BindingMap&, LeafData)
TreeInsert(node, svBindings, ld) ==
  LET kind == IF node.kind # "null" THEN node.kind
              ELSE IF svBindings = <<>> THEN "leaf" ELSE "inter"
      old == IF svBindings \in DOMAIN node.leaves THEN node.leaves[svBindings]
             ELSE EmptyBag
  IN [kind |-> kind,
      leaves |-> [k \in (DOMAIN node.leaves) \cup {svBindings} |->
                    IF k = svBindings THEN old (+) SetToBag({ld}) ELSE node.leaves[k]]]

\* SubstitutionTree::remove(Node**, BindingMap&, LeafData); a leaf left empty
\* is pruned with the nodes that lead to it alone
TreeRemove(node, svBindings, ld) ==
  LET rest == node.leaves[svBindings] (-) SetToBag({ld})
      keep == IF rest = EmptyBag THEN (DOMAIN node.leaves) \ {svBindings}
              ELSE DOMAIN node.leaves
  IN IF keep = {} THEN NullNode
     ELSE [kind |-> node.kind,
           leaves |-> [k \in keep |-> IF k = svBindings THEN rest ELSE node.leaves[k]]]

\* SubstitutionTree::findLeaf: the leaf's records, or the empty bag for no leaf
findLeaf(rootNode, svBindings) ==
  IF svBindings \in DOMAIN rootNode.leaves THEN rootNode.leaves[svBindings] ELSE EmptyBag

\* LiteralSubstitutionTree::getRootNodeIndex
getRootNodeIndex(t, complementary) ==
  IF complementary THEN complementaryHeader(t) ELSE header(t)

\* handleLiteral that stores the normalized literal in the leaf record
handleLiteralStoreNorm(nds, lit, cls, insert) ==
  LET normLit == normalize(lit)
      svBindings == getBindings(normLit)
      r == getRootNodeIndex(normLit, FALSE)
  IN IF insert
     THEN [nds EXCEPT ![r] = TreeInsert(nds[r], svBindings, LeafData(cls, normLit))]
     ELSE [nds EXCEPT ![r] = TreeRemove(nds[r], svBindings, LeafData(cls, normLit))]

\* LiteralSubstitutionTree::handleLiteral: the new _nodes
handleLiteral(nds, lit, cls, insert) ==
  LET normLit == normalize(lit)
      svBindings == getBindings(normLit)
      r == getRootNodeIndex(normLit, FALSE)
  IN IF insert
     THEN [nds EXCEPT ![r] = TreeInsert(nds[r], svBindings, LeafData(cls, lit))]
     ELSE [nds EXCEPT ![r] = TreeRemove(nds[r], svBindings, LeafData(cls, lit))]

\* SLQueryResult(ld.literal, ld.clause) for the records of a leaf
LDToSLQueryResultFn(lds) ==
  {[literal |-> ld.literal, clause |-> ld.clause] : ld \in BagToSet(lds)}

\* getVariants that looks the leaf up by the bindings of the query as given
getVariantsNoNormalize(nds, lit, complementary) ==
  LET rootNode == nds[getRootNodeIndex(lit, complementary)]
  IN IF rootNode.kind = "null" THEN {}
     ELSE IF rootNode.kind = "leaf" THEN LDToSLQueryResultFn(rootNode.leaves[<<>>])
     ELSE LDToSLQueryResultFn(findLeaf(rootNode, getBindings(lit)))

\* LiteralSubstitutionTree::getVariants: the set of results
getVariants(nds, lit, complementary) ==
  LET rootNode == nds[getRootNodeIndex(lit, complementary)]
  IN IF rootNode.kind = "null" THEN {}
     ELSE IF rootNode.kind = "leaf" THEN LDToSLQueryResultFn(rootNode.leaves[<<>>])
     ELSE LET normLit == normalize(lit)
              leaf == findLeaf(rootNode, getBindings(normLit))
          IN LDToSLQueryResultFn(leaf)

\* the sum of the bags of a set of (root, bindings) positions
RECURSIVE SumLeaves(_, _)
SumLeaves(nds, S) ==
  IF S = {} THEN EmptyBag
  ELSE LET x == CHOOSE y \in S : TRUE
       IN nds[x[1]].leaves[x[2]] (+) SumLeaves(nds, S \ {x})

\* LiteralSubstitutionTree::getAll: the bag of the records of all leaves
getAll(nds) ==
  SumLeaves(nds, UNION {{<<h, k>> : k \in DOMAIN nds[h].leaves} : h \in DOMAIN nds})

\* the number of records the index holds in one run
MaxRecords == 3

IndexLeaves == {Var(0), Var(1), Fn(FunA, <<>>)}
IndexVarLeaves == {Var(0), Var(1)}
IndexLits ==
  {Lit(PredQ, pos, <<>>) : pos \in BOOLEAN}
    \cup {Lit(PredP, pos[1], <<x>>) : pos \in {<<TRUE>>, <<FALSE>>}, x \in IndexLeaves}
    \cup {Lit(PredR, TRUE, <<x, y>>) : x \in IndexVarLeaves, y \in IndexVarLeaves}
IndexClauses == {1, 2}
Headers == 0..(2 * PredR + 1)

IndexIdle ==
  /\ nodes = [h \in Headers |-> NullNode]
  /\ present = EmptyBag

\* LiteralSubstitutionTree::insert
IndexInsert(lit, cls) ==
  /\ BagCardinality(present) < MaxRecords
  /\ nodes' = handleLiteral(nodes, lit, cls, TRUE)
  /\ present' = present (+) SetToBag({LeafData(cls, lit)})
  /\ UNCHANGED notIndexVars

\* LiteralSubstitutionTree::remove, of a record that was inserted
IndexRemove(lit, cls) ==
  /\ BagIn(LeafData(cls, lit), present)
  /\ nodes' = handleLiteral(nodes, lit, cls, FALSE)
  /\ present' = present (-) SetToBag({LeafData(cls, lit)})
  /\ UNCHANGED notIndexVars

IndexNext ==
  \/ \E lit \in IndexLits, cls \in IndexClauses : IndexInsert(lit, cls)
  \/ \E lit \in IndexLits, cls \in IndexClauses : IndexRemove(lit, cls)

\* C3: the bag of the leaf records of the tree is the bag of the records
\* inserted minus the removed ones
C3_LeafRecordsAreInsertsMinusRemoves ==
  getAll(nodes) = present

\* two records in one leaf, under a literal that is not its own normal form,
\* after a removal
C3_Witness ==
  /\ BagCardinality(present) >= 2
  /\ \E h \in Headers : \E k \in DOMAIN nodes[h].leaves :
        /\ BagCardinality(nodes[h].leaves[k]) >= 2
        /\ \E ld \in BagToSet(nodes[h].leaves[k]) : normalize(ld.literal) # ld.literal

\* C4: a variants query for a literal that is in the index returns the
\* literal with its clause
C4_VariantsRetrieveInserted ==
  \A ld \in BagToSet(present) :
     [literal |-> ld.literal, clause |-> ld.clause] \in getVariants(nodes, ld.literal, FALSE)

\* an indexed literal that is not its own normal form and shares its leaf
\* with a variant of it
C4_Witness ==
  \E ld \in BagToSet(present) :
     /\ normalize(ld.literal) # ld.literal
     /\ Cardinality(getVariants(nodes, ld.literal, FALSE)) >= 2


(***************************************************************************)
(* The substitution as a state machine: unify and apply calls on one       *)
(* RobSubstitution object, starting from the empty substitution.  `call`   *)
(* records the call that has just returned, until its caller goes on.      *)
(***************************************************************************)
\* the number of fresh variables apply calls may introduce in one run
MaxUnbound == 1

QUERY_BANK == 0
RESULT_BANK == 1
RobBanks == {QUERY_BANK, RESULT_BANK}

\* the terms unified and applied to: the ordinary variable X, the special
\* variable S0, the constants a and b, and h(X, a, X), h(a, X, a), h(S0, S0, X)
RobTerms ==
  {Var(0), SpecialVar(0), Fn(FunA, <<>>), Fn(FunB, <<>>),
   Fn(FunH, <<Var(0), Fn(FunA, <<>>), Var(0)>>),
   Fn(FunH, <<Fn(FunA, <<>>), Var(0), Fn(FunA, <<>>)>>),
   Fn(FunH, <<SpecialVar(0), SpecialVar(0), Var(0)>>)}

EmptyBank == [x \in {} |-> TermSpec(Var(0), 0)]

NoCall == [op |-> "none", t1 |-> Var(0), i1 |-> 0, t2 |-> Var(0), i2 |-> 0,
           ok |-> TRUE, pre |-> EmptyBank, bound |-> 0, pending |-> 0]

RobIdle ==
  /\ bank = EmptyBank
  /\ nextUnbound = 0
  /\ call = NoCall

\* bool RobSubstitution::unify(TermList t1, int index1, TermList t2, int index2)
UnifyCall(t1, i1, t2, i2) ==
  LET r == unify(bank, TermSpec(t1, i1), TermSpec(t2, i2))
  IN /\ call.op = "none"
     /\ bank' = r.bank
     /\ call' = [op |-> "unify", t1 |-> t1, i1 |-> i1, t2 |-> t2, i2 |-> i2,
                 ok |-> r.ok, pre |-> bank, bound |-> r.bound, pending |-> r.pending]
     /\ UNCHANGED <<nextUnbound, notRobVars>>

\* TermList RobSubstitution::apply(TermList trm, int index), while at most
\* maxNext variables of the unbound bank are in use
ApplyCallUpTo(t, i, maxNext) ==
  LET r == apply(bank, nextUnbound, t, i)
  IN /\ call.op = "none"
     /\ r.next <= maxNext
     /\ bank' = r.bank
     /\ nextUnbound' = r.next
     /\ call' = [op |-> "apply", t1 |-> t, i1 |-> i, t2 |-> r.term, i2 |-> UNBOUND_INDEX,
                 ok |-> TRUE, pre |-> bank, bound |-> 0, pending |-> 0]
     /\ UNCHANGED notRobVars

ApplyCall(t, i) == ApplyCallUpTo(t, i, MaxUnbound)

\* the call returns and its caller goes on with the substitution as it is
RobReturn ==
  /\ call.op # "none"
  /\ call' = NoCall
  /\ UNCHANGED <<bank, nextUnbound, notRobVars>>

RobNext ==
  \/ \E t1 \in RobTerms, t2 \in RobTerms, i1 \in RobBanks, i2 \in RobBanks :
       UnifyCall(t1, i1, t2, i2)
  \/ \E t \in RobTerms, i \in RobBanks : ApplyCall(t, i)
  \/ RobReturn

\* C1: when unify returns false, the bindings after the call are exactly the
\* bindings before it
C1_FailedUnifyRestoresBindings ==
  (call.op = "unify" /\ ~call.ok) => bank = call.pre

\* a failed unify on a non-empty substitution that had bound a variable when
\* it met the mismatch, with a further pair still on toDo
C1_Witness ==
  /\ call.op = "unify" /\ ~call.ok
  /\ call.bound > 0 /\ call.pending > 0 /\ call.pre # EmptyBank

\* C2: when unify returns true, the two terms have the same instance under
\* the substitution
C2_UnifySound ==
  (call.op = "unify" /\ call.ok) =>
     LET ra == apply(bank, nextUnbound, call.t1, call.i1)
         rb == apply(ra.bank, ra.next, call.t2, call.i2)
     IN ra.term = rb.term

\* a successful unify of two different terms that bound more than one
\* variable, a special variable among them, on top of earlier bindings
C2_Witness ==
  /\ call.op = "unify" /\ call.ok /\ call.bound > 1 /\ call.pre # EmptyBank
  /\ call.t1 # call.t2
  /\ \E v \in DOMAIN bank : v.index = SPECIAL_INDEX /\ ~Found(call.pre, v)

(***************************************************************************)
(* Clause containers of the Otter saturation algorithm: the Active         *)
(* container with its events and limits pass (ClauseContainer.cpp) and the *)
(* simplification container (Otter.cpp).                                   *)
(***************************************************************************)
SatClauses == {1, 2}

\* Limits: -1 stands for no limit
NoLimit == -1
ageLimited(lim) == lim.maxAge # NoLimit
weightLimited(lim) == lim.maxWeight # NoLimit

\* Limits::setLimits: the kind of change it announces
limitsChange(old, new) ==
  LET tAge == old.maxAge # new.maxAge /\ (old.maxAge = NoLimit \/ (new.maxAge # NoLimit /\ old.maxAge > new.maxAge))
      lAge == old.maxAge # new.maxAge /\ ~tAge
      tWeight == old.maxWeight # new.maxWeight
                   /\ (old.maxWeight = NoLimit \/ (new.maxWeight # NoLimit /\ old.maxWeight > new.maxWeight))
      lWeight == old.maxWeight # new.maxWeight /\ ~tWeight
  IN IF tAge \/ tWeight
     THEN (IF lAge \/ lWeight THEN "LIMITS_CHANGED" ELSE "LIMITS_TIGHTENED")
     ELSE IF lAge \/ lWeight THEN "LIMITS_LOOSENED" ELSE "NONE"

\* Clause::getEffectiveWeight
getEffectiveWeight(cfg, c) == cfg.weight[c]

\* Clause::setStore
setStore(s, c, st) == [s EXCEPT !.store[c] = st]

\* the uses of the index noted in s.pass: its change by handleClause, and
\* the calls on a result iterator over it
noteIndexChange(s, c) == [s EXCEPT !.pass = Append(@, [e |-> "handleClause", c |-> c])]
noteGetAll(s) == [s EXCEPT !.pass = Append(@, [e |-> "getAll"])]
noteHasNext(s) == [s EXCEPT !.pass = Append(@, [e |-> "hasNext"])]
noteNext(s, c) == [s EXCEPT !.pass = Append(@, [e |-> "next", c |-> c])]

\* Index::onAddedToContainer / onRemovedFromContainer -> handleClause
handleClause(s, c, adding) ==
  IF adding THEN [noteIndexChange(s, c) EXCEPT !.index[c] = @ + 1]
  ELSE [noteIndexChange(s, c) EXCEPT !.index[c] = IF @ > 0 THEN @ - 1 ELSE 0]

\* the record of the Active container's events of clause c
noteEvent(s, c, e) ==
  [s EXCEPT !.ev[c] = [last |-> e,
                       ok |-> @.ok /\ (IF e = "added" THEN @.last # "added"
                                       ELSE @.last = "added")]]

\* the simplification container's add and remove
simplContAdd(s, c) == [s EXCEPT !.simpl[c] = @ + 1]
simplContRemove(s, c) == [s EXCEPT !.simpl[c] = IF @ > 0 THEN @ - 1 ELSE 0]

\* SaturationAlgorithm::onActiveRemoved, onPassiveRemoved
baseOnActiveRemoved(s, c) == setStore(s, c, "NONE")
baseOnPassiveRemoved(s, c) == setStore(s, c, "NONE")

\* Otter::onActiveRemoved
onActiveRemoved(s, c) ==
  LET s1 == IF s.store[c] = "ACTIVE" THEN simplContRemove(s, c) ELSE s
  IN baseOnActiveRemoved(s1, c)

\* Otter::onPassiveAdded
onPassiveAdded(s, c) ==
  IF s.store[c] = "PASSIVE" THEN simplContAdd(s, c) ELSE s

\* Otter::onPassiveRemoved
onPassiveRemoved(s, c) ==
  LET s1 == IF s.store[c] = "PASSIVE" THEN simplContRemove(s, c) ELSE s
  IN baseOnPassiveRemoved(s1, c)

\* Otter::onSOSClauseAdded
onSOSClauseAdded(s, c) == simplContAdd(s, c)

\* handleUnsuccessfulActivation that leaves the clause in the simplification
\* container
handleUnsuccessfulActivationKeep(s, c) == setStore(s, c, "NONE")

\* Otter::handleUnsuccessfulActivation
handleUnsuccessfulActivation(s, c) == setStore(simplContRemove(s, c), c, "NONE")

\* the subscribers of the Active container's addedEvent and removedEvent
fireActiveAdded(s, c) == handleClause(noteEvent(s, c, "added"), c, TRUE)
fireActiveRemoved(s, c) == onActiveRemoved(handleClause(noteEvent(s, c, "removed"), c, FALSE), c)

\* ActiveClauseContainer::add that fires the event for every call
activeAddAlwaysFire(s, c) ==
  LET s1 == [s EXCEPT !.size = @ + 1]
      s2 == fireActiveAdded(s1, c)
  IN IF ~s1.in_active[c] THEN [s2 EXCEPT !.in_active[c] = ~@] ELSE s2

\* ActiveClauseContainer::add
activeAdd(s, c) ==
  LET s1 == [s EXCEPT !.size = @ + 1]
  IN IF ~s1.in_active[c]
     THEN [fireActiveAdded(s1, c) EXCEPT !.in_active[c] = ~@]
     ELSE s1

\* ActiveClauseContainer::remove
activeRemove(s, c) ==
  LET s1 == [s EXCEPT !.size = @ - 1]
  IN [fireActiveRemoved(s1, c) EXCEPT !.in_active[c] = ~@]

\* the second loop of onLimitsUpdated: the clauses of the stack toRemove
\* are popped and removed one after another
RECURSIVE removeAll(_, _)
removeAll(s, toRemove) ==
  IF toRemove = <<>> THEN s
  ELSE removeAll(activeRemove(s, toRemove[Len(toRemove)]), SubSeq(toRemove, 1, Len(toRemove) - 1))

\* the decision of onLimitsUpdated for a clause the index returns
shouldRemove(cfg, c, ageLimit, weightLimit) ==
  IF cfg.age[c] > ageLimit
  THEN getEffectiveWeight(cfg, c) > weightLimit
  ELSE cfg.weight[c] - cfg.maxSelWeight[c] >= weightLimit

\* gis->getAll(): the clauses of the generating index, one result for
\* each entry
RECURSIVE gisGetAll(_, _)
gisGetAll(s, cs) ==
  IF cs = {} THEN <<>>
  ELSE LET c == CHOOSE x \in cs : \A y \in cs : x <= y
       IN [i \in 1..s.index[c] |-> c] \o gisGetAll(s, cs \ {c})

\* a clause that should be removed is removed there and then
removeFound(s, toRemove, cl) == [s |-> activeRemove(s, cl), toRemove |-> toRemove]

\* a clause that should be removed is pushed on toRemove
pushFound(s, toRemove, cl) == [s |-> s, toRemove |-> Append(toRemove, cl)]

\* the first loop of onLimitsUpdated over the results rit of getAll, from
\* the i-th one on: hasNext, next, and the decision for the clause
RECURSIVE scanIndex(_, _, _, _, _, _)
scanIndex(st, cfg, rit, i, checked, toRemove) ==
  IF i > Len(rit) THEN [s |-> noteHasNext(st), toRemove |-> toRemove]
  ELSE IF cfg.age[rit[i]] < st.limits.maxAge \/ rit[i] \in checked
  THEN scanIndex(noteNext(noteHasNext(st), rit[i]), cfg, rit, i + 1, checked, toRemove)
  ELSE IF shouldRemove(cfg, rit[i], st.limits.maxAge, st.limits.maxWeight)
  THEN scanIndex(pushFound(noteNext(noteHasNext(st), rit[i]), toRemove, rit[i]).s, cfg, rit, i + 1,
                 checked \cup {rit[i]},
                 pushFound(noteNext(noteHasNext(st), rit[i]), toRemove, rit[i]).toRemove)
  ELSE scanIndex(noteNext(noteHasNext(st), rit[i]), cfg, rit, i + 1, checked \cup {rit[i]}, toRemove)

removeScanned(r) == removeAll(r.s, r.toRemove)

\* ActiveClauseContainer::onLimitsUpdated; gis tells whether the index
\* manager has a generating literal index
onLimitsUpdated(s, cfg, change) ==
  IF change = "LIMITS_LOOSENED" THEN s
  ELSE IF ~cfg.gis THEN s
  ELSE IF ~ageLimited(s.limits) \/ ~weightLimited(s.limits) THEN s
  ELSE removeScanned(scanIndex(noteGetAll(s), cfg, gisGetAll(s, SatClauses), 1, {}, <<>>))

\* the passive container's pass on a limits update: the clauses over both
\* limits leave Passive
RECURSIVE passiveRemoveAll(_, _)
passiveRemoveAll(s, toRemove) ==
  IF toRemove = {} THEN s
  ELSE LET c == CHOOSE x \in toRemove : TRUE
       IN passiveRemoveAll(onPassiveRemoved(s, c), toRemove \ {c})

passiveOnLimitsUpdated(s, cfg, change) ==
  IF change = "LIMITS_LOOSENED" THEN s
  ELSE passiveRemoveAll(s, {c \in SatClauses :
                              /\ s.store[c] = "PASSIVE"
                              /\ ageLimited(s.limits) /\ cfg.age[c] > s.limits.maxAge
                              /\ weightLimited(s.limits) /\ cfg.weight[c] > s.limits.maxWeight})

\* the calls of add on a clause that is in the container already
MaxSize == 2

SatAges == {1, 2}
SatWeights == {2, 3}
SatSelWeights == {1}
SatLimits == {NoLimit, 1, 2}

SatStart ==
  [store |-> [c \in SatClauses |-> "NONE"],
   in_active |-> [c \in SatClauses |-> FALSE],
   size |-> 0,
   index |-> [c \in SatClauses |-> 0],
   simpl |-> [c \in SatClauses |-> 0],
   ev |-> [c \in SatClauses |-> [last |-> "none", ok |-> TRUE]],
   limits |-> [maxAge |-> NoLimit, maxWeight |-> NoLimit],
   pass |-> <<>>,
   op |-> "none",
   change |-> "NONE"]

SatIdle ==
  /\ sat = SatStart
  /\ satCfg = [age |-> [c \in SatClauses |-> 1], weight |-> [c \in SatClauses |-> 2],
               maxSelWeight |-> [c \in SatClauses |-> 1], gis |-> TRUE]

satDone(s, o) == [s EXCEPT !.op = o, !.change = "NONE", !.pass = <<>>]

\* SaturationAlgorithm::addToPassive
AddToPassive(c) ==
  /\ sat.store[c] = "NONE"
  /\ sat' = satDone(onPassiveAdded(setStore(sat, c, "PASSIVE"), c), "addToPassive")
  /\ UNCHANGED <<satCfg, notSatVars>>

\* a passive clause is removed (backward simplification)
RemovePassive(c) ==
  /\ sat.store[c] = "PASSIVE"
  /\ sat' = satDone(onPassiveRemoved(sat, c), "removePassive")
  /\ UNCHANGED <<satCfg, notSatVars>>

\* PassiveClauseContainer::popSelected: the clause becomes the selected one
PopSelected(c) ==
  /\ sat.store[c] = "PASSIVE"
  /\ \A d \in SatClauses : sat.store[d] # "SELECTED"
  /\ sat' = satDone(setStore(sat, c, "SELECTED"), "popSelected")
  /\ UNCHANGED <<satCfg, notSatVars>>

\* SaturationAlgorithm::activate
Activate(c) ==
  /\ sat.store[c] = "SELECTED"
  /\ sat' = satDone(activeAdd(setStore(sat, c, "ACTIVE"), c), "activate")
  /\ UNCHANGED <<satCfg, notSatVars>>

\* the selected clause is not activated
FailActivation(c) ==
  /\ sat.store[c] = "SELECTED"
  /\ sat' = satDone(handleUnsuccessfulActivation(sat, c), "handleUnsuccessfulActivation")
  /\ UNCHANGED <<satCfg, notSatVars>>

\* SaturationAlgorithm::addInputSOSClause
AddSOS(c) ==
  /\ sat.store[c] = "NONE"
  /\ sat' = satDone(onSOSClauseAdded(activeAdd(setStore(sat, c, "ACTIVE"), c), c), "addSOS")
  /\ UNCHANGED <<satCfg, notSatVars>>

\* ActiveClauseContainer::add called for a clause that is in the container
ActiveAddAgain(c) ==
  /\ sat.store[c] = "ACTIVE"
  /\ sat.in_active[c]
  /\ sat.size < MaxSize
  /\ sat' = satDone(activeAdd(sat, c), "addAgain")
  /\ UNCHANGED <<satCfg, notSatVars>>

\* an active clause is removed (backward simplification)
RemoveActive(c) ==
  /\ sat.store[c] = "ACTIVE"
  /\ sat.in_active[c]
  /\ sat' = satDone(activeRemove(sat, c), "removeActive")
  /\ UNCHANGED <<satCfg, notSatVars>>

\* Limits::setLimits and the containers' onLimitsUpdated
LimitsUpdate(newMaxAge, newMaxWeight) ==
  LET new == [maxAge |-> newMaxAge, maxWeight |-> newMaxWeight]
      change == limitsChange(sat.limits, new)
      s1 == [sat EXCEPT !.limits = new, !.pass = <<>>]
      s2 == passiveOnLimitsUpdated(s1, satCfg, change)
      s3 == onLimitsUpdated(s2, satCfg, change)
  IN /\ change # "NONE"
     /\ sat' = [s3 EXCEPT !.op = "limits", !.change = change]
     /\ UNCHANGED <<satCfg, notSatVars>>

SatNext ==
  \/ \E c \in SatClauses : AddToPassive(c)
  \/ \E c \in SatClauses : RemovePassive(c)
  \/ \E c \in SatClauses : PopSelected(c)
  \/ \E c \in SatClauses : Activate(c)
  \/ \E c \in SatClauses : FailActivation(c)
  \/ \E c \in SatClauses : AddSOS(c)
  \/ \E c \in SatClauses : ActiveAddAgain(c)
  \/ \E c \in SatClauses : RemoveActive(c)
  \/ \E a \in SatLimits, w \in SatLimits : LimitsUpdate(a, w)

\* an Active clause over both limits
overLimits(s, cfg, c) ==
  /\ s.in_active[c]
  /\ ageLimited(s.limits) /\ cfg.age[c] > s.limits.maxAge
  /\ weightLimited(s.limits) /\ getEffectiveWeight(cfg, c) > s.limits.maxWeight

\* C5: for every clause the Active container's added and removed events
\* alternate, starting with added, and a subscribed index holds the clause
\* exactly while it is in the container
C5_ActiveEventsAlternate ==
  \A c \in SatClauses :
     /\ sat.ev[c].ok
     /\ sat.index[c] = (IF sat.in_active[c] THEN 1 ELSE 0)

\* add has been called for a clause in the container, after a clause was
\* removed and added again
C5_Witness ==
  /\ sat.op = "addAgain"
  /\ \E c \in SatClauses : sat.in_active[c] /\ sat.index[c] = 1 /\ sat.size > 1
  /\ \E d \in SatClauses : sat.ev[d].last = "removed"

\* C6: when no clause is Selected, the simplification container holds
\* exactly the clauses that are in Passive or in Active
C6_SimplContIsPassiveAndActive ==
  (\A c \in SatClauses : sat.store[c] # "SELECTED") =>
     \A c \in SatClauses :
        sat.simpl[c] = (IF sat.store[c] = "PASSIVE" \/ sat.in_active[c] THEN 1 ELSE 0)

\* an activation has failed while the other clause is in the container
C6_Witness ==
  /\ sat.op = "handleUnsuccessfulActivation"
  /\ \E c \in SatClauses : sat.store[c] = "NONE" /\ sat.simpl[c] = 0 /\ sat.ev[c].last = "removed"
  /\ \E d \in SatClauses : sat.in_active[d] /\ sat.simpl[d] = 1

\* C7: after a tightening of the limits has been processed, no clause over
\* both limits is in Active
C7_NoOverLimitActiveAfterTightening ==
  (sat.op = "limits" /\ sat.change = "LIMITS_TIGHTENED") =>
     \A c \in SatClauses : ~overLimits(sat, satCfg, c)

\* the number of clauses marked as in Active
activeCount(s) == Cardinality({c \in SatClauses : s.in_active[c]})

\* C28: after every sequence of add and remove calls the size counter of
\* the Active container equals the number of clauses marked as in Active
C28_SizeCountsActiveClauses == sat.size = activeCount(sat)

\* a call on the result iterator, and a change of the index, noted in the
\* last limits pass
isIteratorUse(ev) == ev.e \in {"hasNext", "next"}
isIndexChange(ev) == ev.e = "handleClause"

\* C24: no clause is inserted into or removed from the index between the
\* creation of a result iterator over it and a later call on that
\* iterator; the limits pass removes clauses only after the last call on
\* its iterator over the generating index
C24_NoIndexChangeWhileIterating ==
  \A i, j, k \in 1..Len(sat.pass) :
     (i < j /\ j < k /\ sat.pass[i].e = "getAll" /\ isIteratorUse(sat.pass[k])) =>
        ~isIndexChange(sat.pass[j])

\* a limits pass has gone through two clauses of the index and removed
\* both from Active and from the index
C24_Witness ==
  /\ sat.op = "limits"
  /\ Cardinality({i \in 1..Len(sat.pass) : sat.pass[i].e = "next"}) = 2
  /\ Cardinality({i \in 1..Len(sat.pass) : isIndexChange(sat.pass[i])}) = 2
  /\ \A c \in SatClauses : ~sat.in_active[c] /\ sat.index[c] = 0

(***************************************************************************)
(* ScheduleExecutor::run (CASC/ScheduleExecutor.cpp): the strategies of a  *)
(* schedule run as worker processes, at most _numWorkers at a time.        *)
(***************************************************************************)
\* the strategies of the schedule; the process of a strategy goes by its name
Strategies == {1, 2, 3}

\* the clock runs in steps of TickMillis milliseconds, MaxTicks of them
TickMillis == 50
MaxTicks == 4

\* #define DECI(milli) (milli/100)
DECI(milli) == milli \div 100

\* the pool: the processes run had pushed and not removed
Pool(s) == {p \in Strategies : s.ws[p] = "running"}
\* the queue: strategies not started, and stopped processes waiting
Queue(s) == {p \in Strategies : s.ws[p] \in {"new", "stopped"}}

\* the start of run, for a schedule and a number of workers
SchedStart(numWorkers, terminationTime) ==
  [pc |-> "loop",
   numWorkers |-> numWorkers,
   terminationTime |-> terminationTime,
   now |-> 0,
   ws |-> [p \in Strategies |-> "new"],
   spawned |-> {},
   killed |-> {},
   success |-> FALSE,
   result |-> FALSE,
   admitted |-> -1,
   zero |-> [seen |-> FALSE, admitted |-> -1, observed |-> -1],
   wakeAfterZero |-> FALSE]

\* run, "running under capacity, wake up more tasks": the items taken from
\* the queue are spawned, or continued if they were started before
wakeUp(s, taken) ==
  [s EXCEPT !.ws = [p \in Strategies |-> IF p \in taken THEN "running" ELSE @[p]],
            !.spawned = @ \cup {p \in taken : s.ws[p] = "new"},
            !.wakeAfterZero = @ \/ (s.zero.seen /\ taken # {})]

\* run, from the label exit: the processes of the pool are killed and
\* success is returned
exitRun(s) ==
  [s EXCEPT !.pc = "done", !.killed = Pool(s), !.result = s.success]

\* run, the end of a loop iteration: "pool empty and queue exhausted"
endIteration(s) ==
  IF Pool(s) = {} /\ Queue(s) = {} THEN exitRun(s) ELSE [s EXCEPT !.pc = "loop"]

\* the branch for an exited child that takes every exit for a success
childExitedAnyCode(s, p, code) ==
  LET s1 == [s EXCEPT !.ws[p] = "exited"]
  IN exitRun([s1 EXCEPT !.success = TRUE,
                        !.zero = IF code = 0 /\ ~@.seen
                                 THEN [seen |-> TRUE, admitted |-> s.admitted,
                                       observed |-> s.now]
                                 ELSE @])

\* run, "child died, remove it from the pool and check if succeeded"
childExited(s, p, code) ==
  LET s1 == [s EXCEPT !.ws[p] = "exited"]
  IN IF code = 0
     THEN exitRun([s1 EXCEPT !.success = TRUE,
                             !.zero = IF ~@.seen
                                      THEN [seen |-> TRUE, admitted |-> s.admitted,
                                            observed |-> s.now]
                                      ELSE @])
     ELSE endIteration(s1)

\* run, "child stopped, re-insert it in the queue"
childStopped(s, p) == endIteration([s EXCEPT !.ws[p] = "stopped"])

SchedIdle == sched = SchedStart(1, 1)

\* the loop condition and, inside the loop, the filling of the pool
SchedLoop ==
  /\ sched.pc = "loop"
  /\ IF DECI(sched.now) < sched.terminationTime
     THEN LET poolSize == Cardinality(Pool(sched))
              room == sched.numWorkers - poolSize
              k == IF Cardinality(Queue(sched)) < room THEN Cardinality(Queue(sched)) ELSE room
          IN \E taken \in SUBSET Queue(sched) :
                /\ Cardinality(taken) = k
                /\ sched' = [wakeUp(sched, taken) EXCEPT !.pc = "poll", !.admitted = sched.now]
     ELSE sched' = exitRun(sched)
  /\ UNCHANGED notSchedVars

\* poll_children returns an exited child and its exit code
SchedPollExited(p, code) ==
  /\ sched.pc = "poll"
  /\ p \in Pool(sched)
  /\ sched' = childExited(sched, p, code)
  /\ UNCHANGED notSchedVars

\* poll_children returns a stopped child
SchedPollStopped(p) ==
  /\ sched.pc = "poll"
  /\ p \in Pool(sched)
  /\ sched' = childStopped(sched, p)
  /\ UNCHANGED notSchedVars

\* the clock advances
SchedTick ==
  /\ sched.pc # "done"
  /\ sched.now < MaxTicks * TickMillis
  /\ sched' = [sched EXCEPT !.now = @ + TickMillis]
  /\ UNCHANGED notSchedVars

SchedNext ==
  \/ SchedLoop
  \/ \E p \in Strategies, code \in {0, 1} : SchedPollExited(p, code)
  \/ \E p \in Strategies : SchedPollStopped(p)
  \/ SchedTick

\* C8: when run has returned, every process it spawned that has not exited
\* has been sent the kill signal, those stopped in the queue included
C8_AllLiveWorkersKilled ==
  sched.pc = "done" =>
     \A p \in sched.spawned : sched.ws[p] # "exited" => p \in sched.killed

\* C9 as stated: run returns true exactly when an exit with code 0 was
\* observed before the termination time, and nothing is woken up after
\* that exit
C9_TrueIffZeroExitBeforeTermination ==
  /\ sched.pc = "done" =>
        (sched.result <=>
           (sched.zero.seen /\ DECI(sched.zero.observed) < sched.terminationTime))
  /\ sched.zero.seen => (sched.pc = "done" /\ ~sched.wakeAfterZero)

\* C9: run returns true exactly when an exit with code 0 was observed; the
\* loop iteration that observed it was entered before the termination
\* time, the exit itself is observed at that time or later, with no check
\* against the termination time, and nothing is woken up after that exit
C9_TrueIffZeroExitObserved ==
  /\ sched.pc = "done" => (sched.result <=> sched.zero.seen)
  /\ sched.zero.seen =>
        /\ sched.pc = "done"
        /\ sched.zero.admitted >= 0 /\ DECI(sched.zero.admitted) < sched.terminationTime
        /\ sched.zero.observed >= sched.zero.admitted
        /\ ~sched.wakeAfterZero

\* run has returned true for a worker whose exit with code 0 was observed
\* at the termination time or later, after another worker had failed and
\* with a strategy still waiting in the queue
C9_Witness ==
  /\ sched.pc = "done" /\ sched.result
  /\ DECI(sched.zero.observed) >= sched.terminationTime
  /\ \E p \in Strategies : sched.ws[p] = "exited" /\ \E q \in Strategies \ {p} : sched.ws[q] = "exited"
  /\ \E r \in Strategies : sched.ws[r] = "new"

(***************************************************************************)
(* The Knuth-Bendix ordering on terms (Kernel/KBO.cpp, Kernel/Ordering).   *)
(***************************************************************************)
\* further function symbols: unary f and binary g
FunF == 3
FunG == 4

\* Ordering::Result
GREATER == 1
LESS == 2
GREATER_EQ == 3
LESS_EQ == 4
EQUAL == 5
INCOMPARABLE == 6

\* Lib::Comparison
CmpLESS == -1
CmpEQUAL == 0
CmpGREATER == 1

\* Int::compare
IntCompare(i1, i2) == IF i1 < i2 THEN CmpLESS ELSE IF i1 = i2 THEN CmpEQUAL ELSE CmpGREATER

\* Ordering::fromComparison
fromComparison(c) ==
  CASE c = CmpGREATER -> GREATER
    [] c = CmpEQUAL -> EQUAL
    [] c = CmpLESS -> LESS

\* Ordering::reverse
reverse(r) ==
  CASE r = GREATER -> LESS
    [] r = GREATER_EQ -> LESS_EQ
    [] r = LESS -> GREATER
    [] r = LESS_EQ -> GREATER_EQ
    [] r \in {EQUAL, INCOMPARABLE} -> r

\* the symbols of env.signature: b is an interpreted constant, the others
\* are uninterpreted; no symbol is colored, a term algebra constructor or a
\* FOOL constant
getFunction(fun) ==
  [interpreted |-> fun = FunB,
   termAlgebraCons |-> FALSE,
   colored |-> FALSE,
   arity |-> CASE fun \in {FunA, FunB} -> 0 [] fun = FunF -> 1
               [] fun = FunG -> 2 [] fun = FunH -> 3]
isFoolConstantSymbol(b, fun) == FALSE

COLORED_WEIGHT_BOOST == 65536

\* KBO::KBO: _variableWeight and _defaultSymbolWeight
variableWeight == 1
defaultSymbolWeight == 1

\* KBO::functionSymbolWeight
functionSymbolWeight(fun) ==
  IF getFunction(fun).colored THEN defaultSymbolWeight * COLORED_WEIGHT_BOOST
  ELSE defaultSymbolWeight

\* KBO::existsZeroWeightUnaryFunction
existsZeroWeightUnaryFunction == FALSE

\* PrecedenceOrdering::compareFunctionPrecedences for the precedences prec
\* of the symbols below prec.functions; numeric constants are not modelled
compareFunctionPrecedences(prec, fun1, fun2) ==
  LET s1 == getFunction(fun1)
      s2 == getFunction(fun2)
      p(fun) == IF fun >= prec.functions THEN fun ELSE prec.functionPrecedences[fun]
  IN IF fun1 = fun2 THEN EQUAL
     ELSE IF isFoolConstantSymbol(FALSE, fun1) THEN LESS
     ELSE IF isFoolConstantSymbol(FALSE, fun2) THEN GREATER
     ELSE IF isFoolConstantSymbol(TRUE, fun1) THEN LESS
     ELSE IF isFoolConstantSymbol(TRUE, fun2) THEN GREATER
     ELSE IF s1.termAlgebraCons /\ ~s2.termAlgebraCons THEN LESS
     ELSE IF ~s1.termAlgebraCons /\ s2.termAlgebraCons THEN GREATER
     ELSE IF ~s1.interpreted
          THEN (IF s2.interpreted THEN GREATER
                ELSE fromComparison(IntCompare(p(fun1), p(fun2))))
     ELSE IF ~s2.interpreted THEN LESS
     ELSE IF s1.arity > 0
          THEN (IF s2.arity = 0 THEN GREATER ELSE fromComparison(IntCompare(fun1, fun2)))
     ELSE IF s2.arity > 0 THEN LESS
     ELSE fromComparison(IntCompare(fun1, fun2))

\* KBO::State::init
StateInit ==
  [weightDiff |-> 0, varDiffs |-> <<>>, posNum |-> 0, negNum |-> 0, lexResult |-> EQUAL]

\* applyVariableCondition without its branch for _negNum
applyVariableConditionPosOnly(st, res) ==
  IF st.posNum > 0 /\ res \in {LESS, LESS_EQ, EQUAL} THEN INCOMPARABLE
  ELSE res

\* KBO::State::applyVariableCondition
applyVariableCondition(st, res) ==
  IF st.posNum > 0 /\ res \in {LESS, LESS_EQ, EQUAL} THEN INCOMPARABLE
  ELSE IF st.negNum > 0 /\ res \in {GREATER, GREATER_EQ, EQUAL} THEN INCOMPARABLE
  ELSE res

\* KBO::State::recordVariable
recordVariable(st, var, coef) ==
  LET old == IF var \in DOMAIN st.varDiffs THEN st.varDiffs[var] ELSE 0
      pnum == old + coef
      vd == [v \in (DOMAIN st.varDiffs) \cup {var} |-> IF v = var THEN pnum ELSE st.varDiffs[v]]
      s1 == [st EXCEPT !.varDiffs = vd]
  IN IF coef = 1
     THEN (IF pnum = 0 THEN [s1 EXCEPT !.negNum = @ - 1]
           ELSE IF pnum = 1 THEN [s1 EXCEPT !.posNum = @ + 1]
           ELSE s1)
     ELSE (IF pnum = 0 THEN [s1 EXCEPT !.posNum = @ - 1]
           ELSE IF pnum = -1 THEN [s1 EXCEPT !.negNum = @ + 1]
           ELSE s1)

\* KBO::State::traverse(TermList tl, int coef): the symbols of tl are
\* visited in the order of the stack, a term before its arguments and an
\* argument's subterms before the next argument
RECURSIVE traverseTerm(_, _, _)
RECURSIVE traverseArgs(_, _, _, _)
traverseTerm(st, tl, coef) ==
  IF tl.isVar
  THEN recordVariable([st EXCEPT !.weightDiff = @ + variableWeight * coef], tl.id, coef)
  ELSE traverseArgs([st EXCEPT !.weightDiff = @ + functionSymbolWeight(tl.id) * coef],
                    tl.args, 1, coef)
traverseArgs(st, as, i, coef) ==
  IF i > Len(as) THEN st
  ELSE traverseArgs(traverseTerm(st, as[i], coef), as, i + 1, coef)

\* KBO::State::innerResult
innerResult(prec, st, tl1, tl2) ==
  IF st.posNum > 0 /\ st.negNum > 0 THEN INCOMPARABLE
  ELSE LET res == IF st.weightDiff # 0
                  THEN (IF st.weightDiff > 0 THEN GREATER ELSE LESS)
                  ELSE IF tl1.isVar THEN LESS
                  ELSE IF tl2.isVar THEN GREATER
                  ELSE compareFunctionPrecedences(prec, tl1.id, tl2.id)
       IN applyVariableCondition(st, res)

\* KBO::State::traverse(Term* t1, Term* t2): the loop over the stack of
\* pairs of argument lists
RECURSIVE traverseLoop(_, _, _, _, _)
traverseLoop(prec, st, stack, depth, lexValidDepth) ==
  IF stack = <<>> THEN st
  ELSE
    LET ss == Top(stack)[1]
        tt == Top(stack)[2]
        rest == Pop(stack)
    IN IF PtrIsEmpty(ss)
       THEN LET d == depth - 1
            IN IF st.lexResult # EQUAL /\ d < lexValidDepth
               THEN LET lex == IF st.weightDiff # 0
                               THEN (IF st.weightDiff > 0 THEN GREATER ELSE LESS)
                               ELSE st.lexResult
                    IN traverseLoop(prec, [st EXCEPT !.lexResult = applyVariableCondition(st, lex)],
                                    rest, d, d)
               ELSE traverseLoop(prec, st, rest, d, lexValidDepth)
       ELSE
         LET S == Deref(ss)
             T == Deref(tt)
             stack1 == Push(rest, <<PtrNext(ss), PtrNext(tt)>>)
         IN IF S = T THEN traverseLoop(prec, st, stack1, depth, lexValidDepth)
            ELSE IF sameTopFunctor(S, T)
            THEN traverseLoop(prec, st, Push(stack1, <<Ptr(S.args, 1), Ptr(T.args, 1)>>),
                              depth + 1, lexValidDepth)
            ELSE LET st1 == traverseTerm(traverseTerm(st, S, 1), T, -1)
                 IN IF st1.lexResult = EQUAL
                    THEN traverseLoop(prec, [st1 EXCEPT !.lexResult = innerResult(prec, st1, S, T)],
                                      stack1, depth, depth)
                    ELSE traverseLoop(prec, st1, stack1, depth, lexValidDepth)

traverse(prec, st, t1, t2) ==
  traverseLoop(prec, st, <<<<Ptr(t1.args, 1), Ptr(t2.args, 1)>>>>, 1, 0)

\* Term::isLiteral and Term::functor: a literal is a record with a predicate
isLiteral(t) == "pred" \in DOMAIN t
functor(t) == IF isLiteral(t) THEN t.pred ELSE t.id

\* the predicate symbols of env.signature: equality is the only interpreted
\* one; none is a label or an equality proxy
getPredicate(pred) ==
  [interpreted |-> pred = PredEq, label |-> FALSE, equalityProxy |-> FALSE]

\* Signature::predicateColored, as the ordering reads it: prec.colored holds
\* the colored predicates of the signature
predicateColored(prec, pred) == pred \in prec.colored

NONINTERPRETED_PRECEDENCE_BOOST == 4096
NONINTERPRETED_LEVEL_BOOST == 4096
COLORED_LEVEL_BOOST == 65536

\* PrecedenceOrdering::predicateLevel
predicateLevel(prec, pred) ==
  LET basic0 == IF pred >= prec.predicates THEN 1 ELSE prec.predicateLevels[pred]
      basic == IF NONINTERPRETED_LEVEL_BOOST # 0 /\ ~getPredicate(pred).interpreted
               THEN basic0 + NONINTERPRETED_LEVEL_BOOST ELSE basic0
  IN IF predicateColored(prec, pred) THEN COLORED_LEVEL_BOOST * basic ELSE basic

\* PrecedenceOrdering::predicatePrecedence
predicatePrecedence(prec, pred) ==
  LET res == IF pred >= prec.predicates THEN pred ELSE prec.predicatePrecedences[pred]
  IN IF NONINTERPRETED_PRECEDENCE_BOOST # 0
     THEN (IF getPredicate(pred).interpreted THEN 2 * res + 1
           ELSE 2 * res + NONINTERPRETED_PRECEDENCE_BOOST)
     ELSE res

\* result that looks at the precedence of the top functors before the weight
resultPrecedenceFirst(prec, st, t1, t2) ==
  LET res == IF functor(t1) # functor(t2)
             THEN (IF isLiteral(t1)
                   THEN (IF predicatePrecedence(prec, t1.pred) > predicatePrecedence(prec, t2.pred)
                         THEN GREATER ELSE LESS)
                   ELSE compareFunctionPrecedences(prec, t1.id, t2.id))
             ELSE IF st.weightDiff # 0 THEN (IF st.weightDiff > 0 THEN GREATER ELSE LESS)
             ELSE st.lexResult
  IN applyVariableCondition(st, res)

\* KBO::State::result, for two terms or two literals
result(prec, st, t1, t2) ==
  LET res == IF st.weightDiff # 0 THEN (IF st.weightDiff > 0 THEN GREATER ELSE LESS)
             ELSE IF functor(t1) # functor(t2)
             THEN (IF isLiteral(t1)
                   THEN (IF predicatePrecedence(prec, t1.pred) > predicatePrecedence(prec, t2.pred)
                         THEN GREATER ELSE LESS)
                   ELSE compareFunctionPrecedences(prec, t1.id, t2.id))
             ELSE st.lexResult
  IN applyVariableCondition(st, res)

\* TermList::containsSubterm
RECURSIVE containsSubterm(_, _)
containsSubterm(t, sub) ==
  t = sub \/ \E i \in 1..Len(t.args) : containsSubterm(t.args[i], sub)

\* KBO::compare(TermList tl1, TermList tl2)
compare(prec, tl1, tl2) ==
  IF tl1 = tl2 THEN EQUAL
  ELSE IF tl1.isVar THEN (IF containsSubterm(tl2, tl1) THEN LESS ELSE INCOMPARABLE)
  ELSE IF tl2.isVar THEN (IF containsSubterm(tl1, tl2) THEN GREATER ELSE INCOMPARABLE)
  ELSE LET st == IF tl1.id = tl2.id THEN traverse(prec, StateInit, tl1, tl2)
                 ELSE traverseTerm(traverseTerm(StateInit, tl1, 1), tl2, -1)
       IN result(prec, st, tl1, tl2)

\* the terms compared: those over X, Y, a, f and g of at most MaxWeight
\* symbols, and some with the interpreted constant b
MaxWeight == 4

KboLeaves == {Var(0), Var(1), Fn(FunA, <<>>)}
RECURSIVE TermsOfWeight(_)
TermsOfWeight(w) ==
  IF w = 1 THEN KboLeaves
  ELSE {Fn(FunF, <<x>>) : x \in TermsOfWeight(w - 1)}
         \cup UNION {{Fn(FunG, <<x, y>>) : x \in TermsOfWeight(i), y \in TermsOfWeight(w - 1 - i)} :
                       i \in 1..(w - 2)}
KboTerms ==
  UNION {TermsOfWeight(w) : w \in 1..MaxWeight}
    \cup {Fn(FunB, <<>>), Fn(FunF, <<Fn(FunB, <<>>)>>), Fn(FunG, <<Fn(FunB, <<>>), Var(0)>>),
          Fn(FunG, <<Fn(FunA, <<>>), Fn(FunB, <<>>)>>)}

\* the precedences of the function symbols 0..4: two orders of them
KboPrecedences ==
  {[functions |-> 5, functionPrecedences |-> [f \in 0..4 |-> f]],
   [functions |-> 5, functionPrecedences |-> [f \in 0..4 |-> 4 - f]]}

KboStart(prec) == [op |-> "none", prec |-> prec, tl1 |-> Var(0), tl2 |-> Var(0), res |-> 0, back |-> 0]
KboIdle == kbo = KboStart([functions |-> 5, functionPrecedences |-> [f \in 0..4 |-> f]])

\* compare(tl1, tl2) is called
KboCompare(tl1, tl2) ==
  /\ kbo.op = "none"
  /\ kbo' = [kbo EXCEPT !.op = "compare", !.tl1 = tl1, !.tl2 = tl2,
                        !.res = compare(kbo.prec, tl1, tl2), !.back = 0]
  /\ UNCHANGED notKboVars

\* compare is called for the same terms in the other order
KboCompareBack ==
  /\ kbo.op = "compare"
  /\ kbo' = [kbo EXCEPT !.op = "compareBack", !.back = compare(kbo.prec, kbo.tl2, kbo.tl1)]
  /\ UNCHANGED notKboVars

\* the caller is done with the two results
KboReturn ==
  /\ kbo.op = "compareBack"
  /\ kbo' = KboStart(kbo.prec)
  /\ UNCHANGED notKboVars

KboNext ==
  \/ \E tl1 \in KboTerms, tl2 \in KboTerms : KboCompare(tl1, tl2)
  \/ KboCompareBack
  \/ KboReturn

\* C10: compare(s, t) is GREATER exactly when compare(t, s) is LESS
C10_GreaterIffReverseLess ==
  kbo.op = "compareBack" => (kbo.res = GREATER <=> kbo.back = LESS)

\* a comparison decided inside equal top functors, GREATER one way and
\* LESS the other, between terms that are not ground
C10_Witness ==
  /\ kbo.op = "compareBack"
  /\ kbo.res = GREATER /\ kbo.back = LESS
  /\ ~kbo.tl1.isVar /\ ~kbo.tl2.isVar /\ kbo.tl1.id = kbo.tl2.id
  /\ ~Ground(kbo.tl1) /\ ~Ground(kbo.tl2)

\* the number of symbols of a term: every symbol and variable weighs 1
RECURSIVE termWeight(_)
termWeight(t) ==
  IF t.isVar THEN variableWeight
  ELSE LET RECURSIVE sumArgs(_)
           sumArgs(i) == IF i > Len(t.args) THEN 0 ELSE termWeight(t.args[i]) + sumArgs(i + 1)
       IN functionSymbolWeight(t.id) + sumArgs(1)

\* the number of occurrences of variable v in t
RECURSIVE occurrences(_, _)
occurrences(t, v) ==
  IF t.isVar THEN (IF t.id = v THEN 1 ELSE 0)
  ELSE LET RECURSIVE sumArgs(_)
           sumArgs(i) == IF i > Len(t.args) THEN 0 ELSE occurrences(t.args[i], v) + sumArgs(i + 1)
       IN sumArgs(1)

\* the lexicographic argument result: the comparison of the first pair of
\* arguments that differ
lexicographic(prec, t1, t2) ==
  LET i == CHOOSE j \in 1..Len(t1.args) :
             t1.args[j] # t2.args[j] /\ \A k \in 1..(j - 1) : t1.args[k] = t2.args[k]
  IN compare(prec, t1.args[i], t2.args[i])

\* the decision of KBO for two distinct non-variable terms, as a table
kboDecision(prec, t1, t2) ==
  LET wd == termWeight(t1) - termWeight(t2)
      moreInFirst == \E v \in TermVars(t1) : occurrences(t1, v) > occurrences(t2, v)
      moreInSecond == \E v \in TermVars(t2) : occurrences(t2, v) > occurrences(t1, v)
      outcome == IF wd # 0 THEN (IF wd > 0 THEN GREATER ELSE LESS)
                 ELSE IF t1.id # t2.id THEN compareFunctionPrecedences(prec, t1.id, t2.id)
                 ELSE lexicographic(prec, t1, t2)
  IN IF outcome \in {GREATER, EQUAL} /\ moreInSecond THEN INCOMPARABLE
     ELSE IF outcome \in {LESS, EQUAL} /\ moreInFirst THEN INCOMPARABLE
     ELSE outcome

\* C11: for two distinct non-variable terms compare decides by the sign of
\* the weight difference, else by the precedence of different top functors,
\* else by the lexicographic argument result, and the variable condition
\* turns the outcome into INCOMPARABLE
C11_CompareFollowsDecisionTable ==
  (kbo.op = "compare" /\ ~kbo.tl1.isVar /\ ~kbo.tl2.isVar /\ kbo.tl1 # kbo.tl2) =>
     kbo.res = kboDecision(kbo.prec, kbo.tl1, kbo.tl2)

\* a comparison of equal weight and equal top functor, decided by the
\* arguments and then turned into INCOMPARABLE by the variable condition
C11_Witness ==
  /\ kbo.op = "compare" /\ ~kbo.tl1.isVar /\ ~kbo.tl2.isVar
  /\ kbo.tl1.id = kbo.tl2.id /\ kbo.tl1 # kbo.tl2
  /\ termWeight(kbo.tl1) = termWeight(kbo.tl2)
  /\ lexicographic(kbo.prec, kbo.tl1, kbo.tl2) = GREATER
  /\ kbo.res = INCOMPARABLE

(***************************************************************************)
(* The literal ordering: PrecedenceOrdering::compare for two literals,     *)
(* over KBO::comparePredicates.                                            *)
(***************************************************************************)

\* PrecedenceOrdering::PrecedenceOrdering: the precedences follow the
\* permutation aux of the predicates 0..n-1 known at construction; the
\* levels follow the literal comparison mode; the signature read has no
\* colored predicate
PrecedenceOrdering(mode, aux, funPrec) ==
  LET n == Len(aux)
      precedences == [p \in 0..(n - 1) |-> (CHOOSE i \in 1..n : aux[i] = p) - 1]
      byMode == [p \in 0..(n - 1) |->
                   IF mode = "STANDARD" THEN 1 ELSE precedences[p] + 1]
      eqLowest == [byMode EXCEPT ![0] = 0]
      levels == [p \in 0..(n - 1) |->
                   IF p >= 1 /\ getPredicate(p).label THEN -1
                   ELSE IF p >= 1 /\ getPredicate(p).equalityProxy THEN n + 2
                   ELSE eqLowest[p]]
  IN [functions |-> funPrec.functions,
      functionPrecedences |-> funPrec.functionPrecedences,
      predicates |-> n,
      predicatePrecedences |-> precedences,
      predicateLevels |-> levels,
      reverseLCM |-> (mode = "REVERSE"),
      colored |-> {}]

\* the ordering over a signature whose colored predicates are `colored`
withColoredPredicates(ord, colored) == [ord EXCEPT !.colored = colored]

\* Literal::isEquality, Literal::isNegative, TermSharing::tryGetOpposite
isEquality(l) == l.pred = PredEq
isNegative(l) == ~l.pos
tryGetOpposite(l) == [l EXCEPT !.pos = ~@]

\* KBO::comparePredicates
comparePredicates(ord, l1, l2) ==
  LET st == IF l1.pred # l2.pred
            THEN traverseArgs(traverseArgs(StateInit, l1.args, 1, 1), l2.args, 1, -1)
            ELSE traverse(ord, StateInit, l1, l2)
  IN result(ord, st, l1, l2)

\* compare of two literals without its test of the predicate levels
compareLitNoLevels(ord, l1, l2) ==
  IF l1 = l2 THEN EQUAL
  ELSE IF isNegative(l1) # isNegative(l2) /\ l1.pred = l2.pred /\ l1 = tryGetOpposite(l2)
  THEN (IF isNegative(l1) THEN LESS ELSE GREATER)
  ELSE IF ord.reverseLCM /\ (isNegative(l1) \/ isNegative(l2))
  THEN (IF isNegative(l1) /\ isNegative(l2) THEN reverse(comparePredicates(ord, l1, l2))
        ELSE IF isNegative(l1) THEN LESS ELSE GREATER)
  ELSE comparePredicates(ord, l1, l2)

\* PrecedenceOrdering::compare of two literals l1 and l2, for two literals
\* that are not both equalities unless equal or opposite; the test of the
\* weights and variable counts before tryGetOpposite is implied by its result
compareLit(ord, l1, l2) ==
  LET levComp == IntCompare(predicateLevel(ord, l1.pred), predicateLevel(ord, l2.pred))
  IN IF l1 = l2 THEN EQUAL
     ELSE IF isNegative(l1) # isNegative(l2) /\ l1.pred = l2.pred /\ l1 = tryGetOpposite(l2)
     THEN (IF isNegative(l1) THEN LESS ELSE GREATER)
     ELSE IF l1.pred # l2.pred /\ levComp # CmpEQUAL THEN fromComparison(levComp)
     ELSE IF ord.reverseLCM /\ (isNegative(l1) \/ isNegative(l2))
     THEN (IF isNegative(l1) /\ isNegative(l2) THEN reverse(comparePredicates(ord, l1, l2))
           ELSE IF isNegative(l1) THEN LESS ELSE GREATER)
     ELSE comparePredicates(ord, l1, l2)

\* the literals compared: p, q and a predicate r introduced after the
\* ordering was built, over arguments of at most MaxArgWeight symbols, in
\* both polarities, and an equality in both polarities
MaxArgWeight == 2

LitArgs == UNION {TermsOfWeight(w) : w \in 1..MaxArgWeight}
LitLiterals ==
  {Lit(p, pos, <<t>>) : p \in {PredP, PredQ, PredR}, pos \in BOOLEAN, t \in LitArgs}
    \cup {Lit(PredEq, pos, <<Fn(FunA, <<>>), Var(0)>>) : pos \in BOOLEAN}

LiteralComparisonModes == {"STANDARD", "PREDICATE", "REVERSE"}
\* the permutations of the predicates =, p, q
PredicateOrders ==
  {<<PredEq, PredP, PredQ>>, <<PredEq, PredQ, PredP>>, <<PredP, PredEq, PredQ>>,
   <<PredP, PredQ, PredEq>>, <<PredQ, PredEq, PredP>>, <<PredQ, PredP, PredEq>>}
FunctionOrder == [functions |-> 5, functionPrecedences |-> [f \in 0..4 |-> f]]

LitStart(ord) == [op |-> "none", ord |-> ord, l1 |-> Lit(PredP, TRUE, <<Var(0)>>),
                  l2 |-> Lit(PredP, TRUE, <<Var(0)>>), res |-> 0]
LitIdle == litCmp = LitStart(PrecedenceOrdering("STANDARD", <<PredEq, PredP, PredQ>>, FunctionOrder))

\* compare(l1, l2) is called
LitCompare(l1, l2) ==
  /\ litCmp.op = "none"
  /\ (isEquality(l1) /\ isEquality(l2)) => (l1 = l2 \/ l1 = tryGetOpposite(l2))
  /\ litCmp' = [litCmp EXCEPT !.op = "compare", !.l1 = l1, !.l2 = l2,
                        !.res = compareLit(litCmp.ord, l1, l2)]
  /\ UNCHANGED notLitVars

\* the caller is done with the result
LitReturn ==
  /\ litCmp.op = "compare"
  /\ litCmp' = LitStart(litCmp.ord)
  /\ UNCHANGED notLitVars

LitNext ==
  \/ \E l1 \in LitLiterals, l2 \in LitLiterals : LitCompare(l1, l2)
  \/ LitReturn

\* the weight of the arguments of a literal and the occurrences of a
\* variable in them
RECURSIVE argsWeight(_, _)
argsWeight(as, i) == IF i > Len(as) THEN 0 ELSE termWeight(as[i]) + argsWeight(as, i + 1)
RECURSIVE argsOccurrences(_, _, _)
argsOccurrences(as, i, v) ==
  IF i > Len(as) THEN 0 ELSE occurrences(as[i], v) + argsOccurrences(as, i + 1, v)
LiteralVars(l) == UNION {TermVars(l.args[i]) : i \in 1..Len(l.args)}

\* the decision between two literals of one level that are neither equal
\* nor opposite: the sign of the difference of the argument weights, else
\* the predicate precedence of different predicates, else the first pair of
\* arguments that differ; the variable condition turns it into INCOMPARABLE
literalDecision(ord, l1, l2) ==
  LET wd == argsWeight(l1.args, 1) - argsWeight(l2.args, 1)
      moreInFirst == \E v \in LiteralVars(l1) :
                        argsOccurrences(l1.args, 1, v) > argsOccurrences(l2.args, 1, v)
      moreInSecond == \E v \in LiteralVars(l2) :
                        argsOccurrences(l2.args, 1, v) > argsOccurrences(l1.args, 1, v)
      outcome == IF wd # 0 THEN (IF wd > 0 THEN GREATER ELSE LESS)
                 ELSE IF l1.pred # l2.pred
                 THEN (IF predicatePrecedence(ord, l1.pred) > predicatePrecedence(ord, l2.pred)
                       THEN GREATER ELSE LESS)
                 ELSE IF l1.args = l2.args THEN EQUAL
                 ELSE lexicographic(ord, l1, l2)
  IN IF outcome \in {GREATER, EQUAL} /\ moreInSecond THEN INCOMPARABLE
     ELSE IF outcome \in {LESS, EQUAL} /\ moreInFirst THEN INCOMPARABLE
     ELSE outcome

\* the reverse mode decides by polarity
polarityRule(ord, l1, l2) == ord.reverseLCM /\ (isNegative(l1) \/ isNegative(l2))

\* C12 as stated: literals with different predicates compare by level and,
\* for equal levels, by predicate precedence
C12_LevelThenPrecedence ==
  (litCmp.op = "compare" /\ litCmp.l1.pred # litCmp.l2.pred) =>
     LET lev1 == predicateLevel(litCmp.ord, litCmp.l1.pred)
         lev2 == predicateLevel(litCmp.ord, litCmp.l2.pred)
         prec1 == predicatePrecedence(litCmp.ord, litCmp.l1.pred)
         prec2 == predicatePrecedence(litCmp.ord, litCmp.l2.pred)
     IN litCmp.res = IF lev1 # lev2 THEN (IF lev1 > lev2 THEN GREATER ELSE LESS)
                  ELSE IF prec1 > prec2 THEN GREATER ELSE LESS

\* C12: literals with different predicates compare first by predicate level;
\* for equal levels, outside the polarity rule of the reverse mode, by the
\* sign of the difference of their argument weights and only for equal
\* weights by predicate precedence, INCOMPARABLE when the variable condition
\* fails; the arguments are compared one by one only when the predicates
\* are the same; equality has the lowest level
C12_LevelThenWeightThenPrecedence ==
  /\ \A p \in {PredP, PredQ, PredR} :
        predicateLevel(litCmp.ord, PredEq) < predicateLevel(litCmp.ord, p)
  /\ (litCmp.op = "compare" /\ litCmp.l1.pred # litCmp.l2.pred) =>
        LET lev1 == predicateLevel(litCmp.ord, litCmp.l1.pred)
            lev2 == predicateLevel(litCmp.ord, litCmp.l2.pred)
        IN IF lev1 # lev2 THEN litCmp.res = (IF lev1 > lev2 THEN GREATER ELSE LESS)
           ELSE ~polarityRule(litCmp.ord, litCmp.l1, litCmp.l2) =>
                   litCmp.res = literalDecision(litCmp.ord, litCmp.l1, litCmp.l2)
  /\ (/\ litCmp.op = "compare" /\ litCmp.l1.pred = litCmp.l2.pred /\ ~isEquality(litCmp.l1)
      /\ litCmp.l1 # litCmp.l2 /\ litCmp.l1 # tryGetOpposite(litCmp.l2)
      /\ ~polarityRule(litCmp.ord, litCmp.l1, litCmp.l2)) =>
        litCmp.res = literalDecision(litCmp.ord, litCmp.l1, litCmp.l2)

\* two literals of one level whose predicate precedence says LESS and whose
\* argument weights make the first one GREATER
C12_Witness ==
  /\ litCmp.op = "compare" /\ litCmp.l1.pred # litCmp.l2.pred
  /\ predicateLevel(litCmp.ord, litCmp.l1.pred) = predicateLevel(litCmp.ord, litCmp.l2.pred)
  /\ predicatePrecedence(litCmp.ord, litCmp.l1.pred) < predicatePrecedence(litCmp.ord, litCmp.l2.pred)
  /\ argsWeight(litCmp.l1.args, 1) > argsWeight(litCmp.l2.args, 1)
  /\ ~polarityRule(litCmp.ord, litCmp.l1, litCmp.l2)
  /\ litCmp.res = GREATER

\* C13: in the reverse mode a negative non-equality literal is GREATER than
\* a positive non-equality literal of the same predicate level, and the
\* positive one is LESS than the negative one
C13_NegativeGreaterInReverseMode ==
  (/\ litCmp.op = "compare" /\ litCmp.ord.reverseLCM
   /\ ~isEquality(litCmp.l1) /\ ~isEquality(litCmp.l2)
   /\ predicateLevel(litCmp.ord, litCmp.l1.pred) = predicateLevel(litCmp.ord, litCmp.l2.pred)
   /\ isNegative(litCmp.l1) # isNegative(litCmp.l2)) =>
     litCmp.res = IF isNegative(litCmp.l1) THEN GREATER ELSE LESS

(***************************************************************************)
(* RobSubstitution::match(TermSpec base, TermSpec instance).  The state of *)
(* a run is s = [bank, log, subterms, mismatch, assertOk]: the bank, the   *)
(* local BacktrackData, the static stack of pairs of argument pointers,    *)
(* the mismatch flag, and whether every ASS met so far held.               *)
(***************************************************************************)
\* matchPair that also binds an ordinary variable of the instance to a
\* proper term of the base, as unification would
matchPairBothWays(s, S, T, bi, ii) ==
  LET bts == TermSpec(S, bi)
      its == TermSpec(T, ii)
  IN IF isOrdinaryVar(S)
     THEN LET bvs == VarSpec(S.id, bi)
          IN IF Found(s.bank, bvs)
             THEN (IF s.bank[bvs].term # T
                   THEN [s |-> [s EXCEPT !.mismatch = TRUE], go |-> "break", term |-> S]
                   ELSE [s |-> s, go |-> "pop", term |-> S])
             ELSE [s |-> bind(s, bvs, its, TRUE), go |-> "pop", term |-> S]
     ELSE IF isOrdinaryVar(T)
     THEN [s |-> bind(s, VarSpec(T.id, ii), bts, TRUE), go |-> "pop", term |-> S]
     ELSE [s |-> [s EXCEPT !.mismatch = TRUE], go |-> "break", term |-> S]

\* the body of the loop for a pair S, T without a common top functor (lines
\* 492-526): go is "base" or "inst" when bt or it is moved to the binding
\* of a special variable and the loop continues, "break" on a mismatch and
\* "pop" otherwise
matchPair(s, S, T, bi, ii) ==
  LET bts == TermSpec(S, bi)
      its == TermSpec(T, ii)
  IN IF isSpecialVar(S)
     THEN LET bvs == VarSpec(S.id, SPECIAL_INDEX)
          IN IF Found(s.bank, bvs)
             THEN [s |-> [s EXCEPT !.assertOk = @ /\ s.bank[bvs].index = bi],
                   go |-> "base", term |-> s.bank[bvs].term]
             ELSE [s |-> bind(s, bvs, its, TRUE), go |-> "pop", term |-> S]
     ELSE IF isSpecialVar(T)
     THEN LET ivs == VarSpec(T.id, SPECIAL_INDEX)
          IN IF Found(s.bank, ivs)
             THEN [s |-> [s EXCEPT !.assertOk = @ /\ s.bank[ivs].index = ii],
                   go |-> "inst", term |-> s.bank[ivs].term]
             ELSE [s |-> bind(s, ivs, bts, TRUE), go |-> "pop", term |-> S]
     ELSE IF isOrdinaryVar(S)
     THEN LET bvs == VarSpec(S.id, bi)
          IN IF Found(s.bank, bvs)
             THEN LET s1 == [s EXCEPT !.assertOk = @ /\ s.bank[bvs].index = ii]
                  IN IF s.bank[bvs].term # T
                     THEN [s |-> [s1 EXCEPT !.mismatch = TRUE], go |-> "break", term |-> S]
                     ELSE [s |-> s1, go |-> "pop", term |-> S]
             ELSE [s |-> bind(s, bvs, its, TRUE), go |-> "pop", term |-> S]
     ELSE [s |-> [s EXCEPT !.mismatch = TRUE], go |-> "break", term |-> S]

\* the loop of match (lines 480-535); bt and it point into argument arrays
RECURSIVE matchLoop(_, _, _, _, _)
matchLoop(s, bt, it, bi, ii) ==
  LET S == Deref(bt)
      T == Deref(it)
      popped(s1) ==
        IF s1.subterms = <<>> THEN s1
        ELSE LET bt2 == Top(s1.subterms)[1]
                 it2 == Top(s1.subterms)[2]
             IN matchLoop([s1 EXCEPT !.subterms = pushNext(Pop(s1.subterms), bt2, it2)],
                          bt2, it2, bi, ii)
  IN IF ~sameTermContent(TermSpec(S, bi), TermSpec(T, ii)) /\ sameTopFunctor(S, T)
     THEN LET bt1 == Ptr(S.args, 1)
              it1 == Ptr(T.args, 1)
          IN matchLoop([s EXCEPT !.subterms = pushNext(s.subterms, bt1, it1)],
                       bt1, it1, bi, ii)
     ELSE IF sameTopFunctor(S, T) THEN popped(s)
     ELSE LET r == matchPair(s, S, T, bi, ii)
          IN CASE r.go = "base" -> matchLoop(r.s, Ptr(<<r.term>>, 1), it, bi, ii)
               [] r.go = "inst" -> matchLoop(r.s, bt, Ptr(<<r.term>>, 1), bi, ii)
               [] r.go = "break" -> r.s
               [] r.go = "pop" -> popped(r.s)

\* RobSubstitution::match(TermSpec, TermSpec): [ok, bank, bound, assertOk]
match(bk, base, instance) ==
  IF sameTermContent(base, instance)
  THEN [ok |-> TRUE, bank |-> bk, bound |-> 0, assertOk |-> TRUE]
  ELSE LET s0 == [bank |-> bk, log |-> <<>>, subterms |-> <<>>, mismatch |-> FALSE,
                  assertOk |-> TRUE]
           s == matchLoop(s0, Ptr(<<base.term>>, 1), Ptr(<<instance.term>>, 1),
                          base.index, instance.index)
       IN IF s.mismatch
          THEN [ok |-> FALSE, bank |-> backtrack(s.bank, s.log), bound |-> Len(s.log),
                assertOk |-> s.assertOk]
          ELSE [ok |-> TRUE, bank |-> s.bank, bound |-> Len(s.log), assertOk |-> s.assertOk]

\* the ordinary and the special variables of a term
RECURSIVE OrdinaryVars(_)
OrdinaryVars(t) ==
  IF t.isVar THEN (IF isSpecialVar(t) THEN {} ELSE {t.id})
  ELSE UNION {OrdinaryVars(t.args[i]) : i \in 1..Len(t.args)}
RECURSIVE SpecialVars(_)
SpecialVars(t) ==
  IF t.isVar THEN (IF isSpecialVar(t) THEN {t.id} ELSE {})
  ELSE UNION {SpecialVars(t.args[i]) : i \in 1..Len(t.args)}

\* the terms matched: over the ordinary variable X, the special variable S0,
\* the constants a and b, and the ternary h
MatchLeaves == {Var(0), SpecialVar(0), Fn(FunA, <<>>)}
MatchBases ==
  MatchLeaves \cup {Fn(FunB, <<>>)}
    \cup {Fn(FunH, <<Fn(FunA, <<>>), y, z>>) : y \in MatchLeaves, z \in MatchLeaves}
    \cup {Fn(FunH, <<Var(0), Var(0), Var(0)>>)}
MatchInstances ==
  MatchLeaves \cup {Fn(FunB, <<>>)}
    \cup {Fn(FunH, <<Fn(FunA, <<>>), y, Fn(FunA, <<>>)>>) : y \in MatchLeaves}
    \cup {Fn(FunH, <<Var(0), Fn(FunB, <<>>), Var(0)>>)}
\* the banks of the base and of the instance: two banks, or one for both
MatchBanks == {<<RESULT_BANK, QUERY_BANK>>, <<QUERY_BANK, QUERY_BANK>>}
\* the terms a special variable is bound to by the retrieval from a tree
SpecialBindings == {Var(0), Fn(FunA, <<>>), Fn(FunH, <<Var(0), Fn(FunA, <<>>), Var(0)>>)}

\* bool RobSubstitution::match(TermList base, int baseIndex, TermList
\* instance, int instanceIndex), called where its assertions hold and with
\* special variables, which only the terms of a tree have, on one side
MatchCall(base, bi, instance, ii) ==
  LET r == match(bank, TermSpec(base, bi), TermSpec(instance, ii))
  IN /\ call.op = "none"
     /\ SpecialVars(base) = {} \/ SpecialVars(instance) = {}
     /\ r.assertOk
     /\ bank' = r.bank
     /\ call' = [op |-> "match", t1 |-> base, i1 |-> bi, t2 |-> instance, i2 |-> ii,
                 ok |-> r.ok, pre |-> bank, bound |-> r.bound, pending |-> 0]
     /\ UNCHANGED <<nextUnbound, notRobVars>>

\* void RobSubstitution::bindSpecialVar(unsigned var, TermList t, int index)
BindSpecialVar(var, t, index) ==
  LET vs == VarSpec(var, SPECIAL_INDEX)
      s == bind([bank |-> bank, log |-> <<>>], vs, TermSpec(t, index), FALSE)
  IN /\ call.op = "none"
     /\ ~Found(bank, vs)
     /\ bank' = s.bank
     /\ UNCHANGED <<nextUnbound, call, notRobVars>>

MatchNext ==
  \/ \E base \in MatchBases, instance \in MatchInstances, banks \in MatchBanks :
       MatchCall(base, banks[1], instance, banks[2])
  \/ \E t \in SpecialBindings, index \in RobBanks : BindSpecialVar(0, t, index)
  \/ RobReturn

\* the variables that the last call bound or bound anew
newlyBound == {v \in DOMAIN bank : ~Found(call.pre, v) \/ call.pre[v] # bank[v]}

\* the ordinary variables of the pattern side: those of the pattern and
\* those of the terms its special variables are bound to
patternSideVars ==
  OrdinaryVars(call.t1)
    \cup UNION {OrdinaryVars(bank[VarSpec(sv, SPECIAL_INDEX)].term) :
                  sv \in {x \in SpecialVars(call.t1) : Found(bank, VarSpec(x, SPECIAL_INDEX))}}

\* C14 as stated: a successful match binds only variables that occur in the
\* pattern, in the bank of the pattern
C14_OnlyPatternVariablesBound ==
  (call.op = "match" /\ call.ok) =>
     \A v \in newlyBound :
        \/ v.index = call.i1 /\ v.var \in OrdinaryVars(call.t1)
        \/ v.index = SPECIAL_INDEX /\ v.var \in SpecialVars(call.t1)

\* C14: a successful match adds bindings only for ordinary variables of the
\* pattern's bank that occur in the pattern or in the term bound to one of
\* its special variables, and for special variables, which are bound on
\* whichever side they occur; when the banks differ, no ordinary variable
\* of the matched term becomes bound
C14_OnlyPatternOrSpecialVariablesBound ==
  (call.op = "match" /\ call.ok) =>
     /\ \A v \in newlyBound :
           \/ v.index = call.i1 /\ v.var \in patternSideVars
           \/ /\ v.index = SPECIAL_INDEX
              /\ v.var \in SpecialVars(call.t1) \cup SpecialVars(call.t2)
     /\ call.i1 # call.i2 => \A v \in newlyBound : v.index # call.i2

\* a successful match that bound an ordinary variable of the pattern and
\* left the matched term's own ordinary variable, in another bank, unbound
C14_Witness ==
  /\ call.op = "match" /\ call.ok /\ call.i1 # call.i2
  /\ \E v \in newlyBound : v.index = call.i1 /\ v.var \in OrdinaryVars(call.t1)
  /\ OrdinaryVars(call.t2) # {}
  /\ \A x \in OrdinaryVars(call.t2) : ~Found(bank, VarSpec(x, call.i2))

(***************************************************************************)
(* RobSubstitution::apply on terms whose variables are not bound.          *)
(***************************************************************************)
\* the number of variables of the unbound bank that apply may hand out
MaxFresh == 3

\* the terms applied to: over the ordinary variables X, Y, the special
\* variable S0, the constants a and b, and the ternary h
ApplyLeaves == {Var(0), Var(1), SpecialVar(0), Fn(FunA, <<>>)}
ApplyTerms ==
  ApplyLeaves \cup {Fn(FunB, <<>>)}
    \cup {Fn(FunH, <<x, y, z>>) : x \in ApplyLeaves, y \in ApplyLeaves, z \in ApplyLeaves}
\* the terms a variable is unified with before
BoundTerms == {Var(1), Fn(FunA, <<>>), Fn(FunH, <<Fn(FunA, <<>>), Var(0), Fn(FunA, <<>>)>>)}

ApplyNext ==
  \/ \E t \in ApplyTerms, i \in RobBanks : ApplyCallUpTo(t, i, MaxFresh)
  \/ \E x \in {0, 1}, t \in BoundTerms : UnifyCall(Var(x), QUERY_BANK, t, RESULT_BANK)
  \/ RobReturn

\* the variables of t in bank i, as the substitution knows them: a special
\* variable belongs to the bank SPECIAL_INDEX whatever i is
TermVarSpecs(t, i) ==
  {getVarSpec(TermSpec(VarSeq(t)[k], i)) : k \in 1..Len(VarSeq(t))}

\* no variable of t in bank i has a binding in bk, but for the variable of
\* the unbound bank that an earlier deref gave it
noVariableBound(bk, t, i) ==
  \A v \in TermVarSpecs(t, i) : ~Found(bk, v) \/ bk[v].index = UNBOUND_INDEX

\* t in bank i with every variable v replaced by the ordinary variable rho[v]
RECURSIVE renameVars(_, _, _)
renameVars(t, i, rho) ==
  IF t.isVar THEN Var(rho[getVarSpec(TermSpec(t, i))])
  ELSE Fn(t.id, [k \in 1..Len(t.args) |-> renameVars(t.args[k], i, rho)])

\* C15 as stated: apply returns a term structurally equal to t when no
\* variable of t is bound
C15_ApplyIsIdentity ==
  (call.op = "apply" /\ noVariableBound(call.pre, call.t1, call.i1)) =>
     call.t2 = call.t1

\* C15: when no variable of t is bound, apply returns t with its variables
\* renamed one-to-one to variables of the unbound bank, and a ground t as
\* it is
C15_ApplyIsVariant ==
  (call.op = "apply" /\ noVariableBound(call.pre, call.t1, call.i1)) =>
     \E rho \in [TermVarSpecs(call.t1, call.i1) -> 0..MaxFresh] :
        /\ \A x, y \in TermVarSpecs(call.t1, call.i1) : rho[x] = rho[y] => x = y
        /\ call.t2 = renameVars(call.t1, call.i1, rho)

\* apply on a term with three unbound variables, one of them the special
\* variable with the number of an ordinary one, returned a different term
C15_Witness ==
  /\ call.op = "apply" /\ noVariableBound(call.pre, call.t1, call.i1)
  /\ Cardinality(TermVarSpecs(call.t1, call.i1)) = 3
  /\ call.t2 # call.t1

(***************************************************************************)
(* Retrieval of equality literals from the literal index:                  *)
(* LiteralSubstitutionTree::getResultIterator and getVariants.             *)
(***************************************************************************)
\* the sorts of the modelled signature: a has sort s, b has sort t
SortS == 0
SortT == 1
functionResultSort(f) == IF f = FunB THEN SortT ELSE SortS

\* an equality of two variables carries its sort (Literal::twoVarEqSort)
TwoVarEq(pos, x, y, srt) == [pred |-> PredEq, pos |-> pos, args |-> <<x, y>>, sort |-> srt]
isTwoVarEquality(l) == l.pred = PredEq /\ l.args[1].isVar /\ l.args[2].isVar

\* SortHelper::getEqualityArgumentSort
getEqualityArgumentSort(l) ==
  IF isTwoVarEquality(l) THEN l.sort
  ELSE functionResultSort((IF l.args[1].isVar THEN l.args[2] ELSE l.args[1]).id)

\* Term::commutative
commutative(l) == l.pred = PredEq

\* the literal as the term the iterators traverse, its two arguments
\* swapped for the retrieval in reversed order
asTerm(l, reversed) ==
  Fn(l.pred, IF reversed THEN <<l.args[2], l.args[1]>> ELSE l.args)

\* the records under a root
allChildren(rootNode) ==
  UNION {LDToSLQueryResultFn(rootNode.leaves[k]) : k \in DOMAIN rootNode.leaves}

\* UnificationsIterator, FastGeneralizationsIterator, FastInstancesIterator
\* mapped by SLQueryResultFunctor: the records under the root whose literal
\* unifies with, generalizes, or is an instance of the query
Iterator(kind, rootNode, lit, reversed) ==
  LET q == TermSpec(asTerm(lit, reversed), QUERY_BANK)
      res(r) == TermSpec(asTerm(r.literal, FALSE), RESULT_BANK)
  IN {r \in allChildren(rootNode) :
        CASE kind = "unifications" -> unify(EmptyBank, q, res(r)).ok
          [] kind = "generalizations" -> match(EmptyBank, res(r), q).ok
          [] kind = "instances" -> match(EmptyBank, q, res(r)).ok}

\* LiteralSubstitutionTree::EqualitySortFilter
EqualitySortFilter(queryLit, res) ==
  getEqualityArgumentSort(res.literal) = getEqualityArgumentSort(queryLit)

\* LiteralSubstitutionTree::getResultIterator: the set of results
getResultIterator(nds, kind, lit, complementary) ==
  LET rootNode == nds[getRootNodeIndex(lit, complementary)]
  IN IF rootNode.kind = "null" THEN {}
     ELSE IF rootNode.kind = "leaf" THEN LDToSLQueryResultFn(rootNode.leaves[<<>>])
     ELSE IF commutative(lit)
     THEN {r \in Iterator(kind, rootNode, lit, FALSE) \cup Iterator(kind, rootNode, lit, TRUE) :
             EqualitySortFilter(lit, r)}
     ELSE Iterator(kind, rootNode, lit, FALSE)

\* the equalities indexed and queried: X = Y in two sorts, and equalities
\* with a constant of sort s or of sort t
EqLits ==
  {TwoVarEq(TRUE, Var(0), Var(1), srt) : srt \in {SortS, SortT}}
    \cup {Lit(PredEq, TRUE, <<Fn(FunA, <<>>), Var(0)>>), Lit(PredEq, TRUE, <<Var(0), Fn(FunA, <<>>)>>),
          Lit(PredEq, TRUE, <<Fn(FunB, <<>>), Var(0)>>), Lit(PredEq, FALSE, <<Var(0), Fn(FunB, <<>>)>>)}
QueryKinds == {"unifications", "generalizations", "instances", "variants"}

NoQuery == [op |-> "none", lit |-> Lit(PredQ, TRUE, <<>>), results |-> {}]
QryIdle == qry = NoQuery

\* an equality is inserted into the index
EqInsert(lit, cls) ==
  /\ qry.op = "none"
  /\ IndexInsert(lit, cls)

\* an equality that was inserted is removed
EqRemove(lit, cls) ==
  /\ qry.op = "none"
  /\ IndexRemove(lit, cls)

\* getUnifications, getGeneralizations, getInstances or getVariants for lit
IndexQuery(kind, lit, complementary) ==
  /\ qry.op = "none"
  /\ qry' = [op |-> kind, lit |-> lit,
             results |-> IF kind = "variants" THEN getVariants(nodes, lit, complementary)
                         ELSE getResultIterator(nodes, kind, lit, complementary)]
  /\ UNCHANGED notQryVars

\* the caller has consumed the results
QueryReturn ==
  /\ qry.op # "none"
  /\ qry' = NoQuery
  /\ UNCHANGED notQryVars

QryNext ==
  \/ \E lit \in EqLits : EqInsert(lit, 1)
  \/ \E lit \in EqLits : EqRemove(lit, 1)
  \/ \E kind \in QueryKinds, lit \in EqLits, complementary \in BOOLEAN :
       IndexQuery(kind, lit, complementary)
  \/ QueryReturn

\* C16: every result of a retrieval for an equality query, variant
\* retrieval included, is an equality of the argument sort of the query
C16_ResultsHaveQuerySort ==
  (qry.op # "none" /\ qry.lit.pred = PredEq) =>
     \A r \in qry.results :
        /\ r.literal.pred = PredEq
        /\ getEqualityArgumentSort(r.literal) = getEqualityArgumentSort(qry.lit)

(***************************************************************************)
(* Literal selection: MaximalLiteralSelector::doSelection on a clause, a   *)
(* sequence of literals, of which the first `eligible` may be selected.    *)
(***************************************************************************)
\* LiteralSelector::isNegativeForSelection, without reversed polarity
isNegativeForSelection(l) == isNegative(l)

\* a sequence without its i-th element (LiteralList::pop of a tail reference)
RemoveAt(seq, i) == SubSeq(seq, 1, i - 1) \o SubSeq(seq, i + 1, Len(seq))

\* Ordering::removeNonMaximal: ptr1 is at position i and ptr2 at position j
RECURSIVE removeNonMaximalFrom(_, _, _, _)
removeNonMaximalFrom(ord, lits, i, j) ==
  IF i > Len(lits) THEN lits
  ELSE IF j > Len(lits) THEN removeNonMaximalFrom(ord, lits, i + 1, i + 2)
  ELSE LET res == compareLit(ord, lits[i], lits[j])
       IN IF res \in {GREATER, GREATER_EQ, EQUAL}
          THEN removeNonMaximalFrom(ord, RemoveAt(lits, j), i, j)
          ELSE IF res \in {LESS, LESS_EQ}
          THEN removeNonMaximalFrom(ord, RemoveAt(lits, i), i, i + 1)
          ELSE removeNonMaximalFrom(ord, lits, i, j + 1)

\* removeNonMaximal whose first pass starts one literal too far
removeNonMaximalSkipping(ord, lits) == removeNonMaximalFrom(ord, lits, 1, 3)
removeNonMaximal(ord, lits) == removeNonMaximalFrom(ord, lits, 1, 2)

\* a swap that leaves the literals where they are
swapNothing(c, i, j) == c

\* std::swap of two literals of the clause
swap(c, i, j) == [c EXCEPT ![i] = c[j], ![j] = c[i]]

\* the loop of lines 80-89; li and selCnt count from 0 as in the code, and
\* inBounds tells that ASS(li<eligible) held throughout
RECURSIVE moveSelected(_, _, _, _, _)
moveSelected(c, sel, li, selCnt, eligible) ==
  IF sel = <<>> THEN [lits |-> c, selCnt |-> selCnt, inBounds |-> TRUE]
  ELSE IF li >= eligible THEN [lits |-> c, selCnt |-> selCnt, inBounds |-> FALSE]
  ELSE IF c[li + 1] = Head(sel)
  THEN moveSelected(IF li # selCnt THEN swap(c, li + 1, selCnt + 1) ELSE c,
                    Tail(sel), li + 1, selCnt + 1, eligible)
  ELSE moveSelected(c, sel, li + 1, selCnt, eligible)

\* doSelection, lines 46-58: the literals among the first eligible that may
\* be selected: the negative ones if there is one, else all of them
selectable(c, eligible) ==
  LET anyNegative == \E li \in 1..eligible : isNegativeForSelection(c[li])
  IN SelectSeq(SubSeq(c, 1, eligible),
               LAMBDA l : ~anyNegative \/ isNegativeForSelection(l))

\* doSelection, lines 62-76: of the maximal literals, the first negative
\* one alone if there is one, else all of them
singleSelected(sel1) ==
  LET neg == SelectSeq(sel1, isNegativeForSelection)
  IN IF neg # <<>> THEN <<Head(neg)>> ELSE sel1

\* doSelection, lines 78-93: the chosen literals are moved to the front
selectChosen(c, eligible, chosen, r) ==
  [lits |-> r.lits, selCnt |-> r.selCnt, inBounds |-> r.inBounds, chosen |-> chosen]
selectFrom(c, eligible, chosen) ==
  selectChosen(c, eligible, chosen, moveSelected(c, chosen, 0, 0, eligible))

\* Literal::color is not COLOR_TRANSPARENT: the literal is over one of the
\* colored predicates of the signature
isColored(colored, l) == l.pred \in colored

\* LiteralSelector::ensureSomeColoredSelected(c, eligible) on r = [lits,
\* selCnt, inBounds, chosen]: when the clause has a colored literal and
\* none is selected, the first colored literal among the eligible ones is
\* swapped to position selCnt and selected as well
ensureSomeColoredSelected(colored, r, eligible) ==
  LET later == {i \in (r.selCnt + 1)..eligible : isColored(colored, r.lits[i])}
      first == CHOOSE i \in later : \A j \in later : i <= j
  IN IF \A i \in 1..Len(r.lits) : ~isColored(colored, r.lits[i]) THEN r
     ELSE IF \E i \in 1..r.selCnt : isColored(colored, r.lits[i]) THEN r
     ELSE IF later = {} THEN r
     ELSE [r EXCEPT !.lits = swap(r.lits, r.selCnt + 1, first),
                    !.selCnt = r.selCnt + 1,
                    !.chosen = Append(r.chosen, r.lits[first])]

\* MaximalLiteralSelector::doSelection: [lits, selCnt, inBounds, chosen];
\* _ord reads the signature that colors the literals, so a colored
\* predicate is on a level above every other
doSelection(ord, colored, c, eligible) ==
  ensureSomeColoredSelected(
    colored,
    selectFrom(c, eligible,
               singleSelected(removeNonMaximal(withColoredPredicates(ord, colored),
                                               selectable(c, eligible)))),
    eligible)

\* the clauses selected from: up to MaxLen literals over p and q
MaxLen == 3

SelLiterals ==
  {Lit(PredP, TRUE, <<Var(0)>>), Lit(PredP, FALSE, <<Fn(FunA, <<>>)>>),
   Lit(PredP, TRUE, <<Fn(FunF, <<Fn(FunA, <<>>)>>)>>), Lit(PredQ, TRUE, <<Fn(FunA, <<>>)>>),
   Lit(PredQ, FALSE, <<Var(0)>>), Lit(PredQ, FALSE, <<Fn(FunF, <<Var(1)>>)>>)}
\* the sequences of n elements of S
RECURSIVE SeqsOfLen(_, _)
SeqsOfLen(S, n) ==
  IF n = 0 THEN {<<>>} ELSE {Append(s, x) : s \in SeqsOfLen(S, n - 1), x \in S}
SelClauses == UNION {SeqsOfLen(SelLiterals, n) : n \in 1..MaxLen}
SelOrderings ==
  {PrecedenceOrdering(mode, aux, FunctionOrder) :
     mode \in LiteralComparisonModes, aux \in {<<PredEq, PredP, PredQ>>, <<PredEq, PredQ, PredP>>}}

\* the colored predicates of the signature: none, p, or q
SelColorings == {{}, {PredP}, {PredQ}}

SelStart(ord, colored) ==
  [op |-> "none", ord |-> withColoredPredicates(ord, colored), colored |-> colored, before |-> <<>>, eligible |-> 0,
   lits |-> <<>>, selCnt |-> 0, inBounds |-> TRUE, chosen |-> <<>>,
   sel |-> <<>>, maximal |-> <<>>]
SelIdle ==
  selection = SelStart(PrecedenceOrdering("STANDARD", <<PredEq, PredP, PredQ>>, FunctionOrder), {})

\* doSelection(c, eligible) is called, with 1 <= eligible <= length
Select(c, eligible) ==
  LET r == doSelection(selection.ord, selection.colored, c, eligible)
  IN /\ selection.op = "none"
     /\ selection' = [op |-> "doSelection", ord |-> selection.ord,
                      colored |-> selection.colored, before |-> c,
                      eligible |-> eligible, lits |-> r.lits, selCnt |-> r.selCnt,
                      inBounds |-> r.inBounds, chosen |-> r.chosen,
                      sel |-> selectable(c, eligible),
                      maximal |-> removeNonMaximal(selection.ord, selectable(c, eligible))]
     /\ UNCHANGED notSelVars

\* the selector returns
SelectReturn ==
  /\ selection.op = "doSelection"
  /\ selection' = SelStart(selection.ord, selection.colored)
  /\ UNCHANGED notSelVars

SelNext ==
  \/ \E c \in SelClauses : \E eligible \in 1..Len(c) : Select(c, eligible)
  \/ SelectReturn

\* the bag of the elements of a sequence
SeqToBag(seq) ==
  [x \in {seq[i] : i \in 1..Len(seq)} |-> Cardinality({i \in 1..Len(seq) : seq[i] = x})]

\* C17: after doSelection on a clause with an eligible literal the selected
\* count k satisfies 1 <= k <= eligible <= length, the chosen literals are
\* the ones at positions 0..k-1, and the clause holds the same multiset of
\* literals as before
C17_SelectedPrefix ==
  selection.op = "doSelection" =>
     /\ selection.inBounds
     /\ 1 <= selection.selCnt
     /\ selection.selCnt <= selection.eligible
     /\ selection.eligible <= Len(selection.lits)
     /\ SeqToBag(SubSeq(selection.lits, 1, selection.selCnt)) = SeqToBag(selection.chosen)
     /\ SeqToBag(selection.lits) = SeqToBag(selection.before)

\* a selection of two literals that changed the order of the clause: one
\* literal chosen as maximal, and a colored one that
\* ensureSomeColoredSelected moved next to it
C17_Witness ==
  /\ selection.op = "doSelection"
  /\ selection.selCnt = 2
  /\ selection.lits # selection.before
  /\ Len(singleSelected(selection.maximal)) = 1
  /\ isColored(selection.colored, selection.lits[2])
  /\ selection.lits[2] # selection.before[2]

\* the i-th literal of lits is smaller than another literal of lits
smallerThanOther(ord, lits, i) ==
  \E j \in 1..Len(lits) : j # i /\ compareLit(ord, lits[i], lits[j]) \in {LESS, LESS_EQ}

\* the i-th literal of lits is equal to an earlier literal of lits
equalToEarlier(ord, lits, i) ==
  \E j \in 1..(i - 1) : compareLit(ord, lits[j], lits[i]) = EQUAL

\* the literals of lits from the i-th on that are maximal in lits, in
\* their order
RECURSIVE maximalLiterals(_, _, _)
maximalLiterals(ord, lits, i) ==
  IF i > Len(lits) THEN <<>>
  ELSE (IF smallerThanOther(ord, lits, i) \/ equalToEarlier(ord, lits, i)
        THEN <<>> ELSE <<lits[i]>>) \o maximalLiterals(ord, lits, i + 1)

\* C27: removeNonMaximal leaves exactly the literals of the list that are
\* not smaller than another literal of the list and not equal to an
\* earlier one, in their original order
C27_RemoveNonMaximalKeepsMaximal ==
  selection.op = "doSelection" =>
     selection.maximal = maximalLiterals(selection.ord, selection.sel, 1)

\* a list of three literals of which the first is removed because a later
\* one is greater, after it has been compared with an incomparable one,
\* and two maximal literals stay
C27_Witness ==
  /\ selection.op = "doSelection"
  /\ Len(selection.sel) = 3
  /\ Len(selection.maximal) = 2
  /\ selection.maximal = SubSeq(selection.sel, 2, 3)

(***************************************************************************)
(* Generating inferences: Superposition::performSuperposition and          *)
(* Factoring::generateClauses (Inferences/Superposition.cpp, Factoring.cpp)*)
(***************************************************************************)
\* a clause: its literals, the number of selected ones (a prefix), its age
Clause(lits, numSelected, age) == [lits |-> lits, numSelected |-> numSelected, age |-> age]
\* the null pointer returned when no clause is produced
NullClause == [lits |-> <<>>, numSelected |-> 0, age |-> 0, null |-> TRUE]
isNull(c) == "null" \in DOMAIN c

\* Int::max
IntMax(i, j) == IF i > j THEN i ELSE j

\* Ordering::isGorGEorE
isGreaterOnly(r) == r = GREATER
isGorGEorE(r) == r \in {GREATER, GREATER_EQ, EQUAL}

\* Ordering::getEqualityArgumentOrder
getEqualityArgumentOrder(ord, eq) == compare(ord, eq.args[1], eq.args[2])

\* EqHelper::getOtherEqualitySide
getOtherEqualitySide(eq, lhs) == IF eq.args[1] = lhs THEN eq.args[2] ELSE eq.args[1]

\* EqHelper::replace on a term and on a literal: every occurrence of what
\* becomes by
RECURSIVE replaceTerm(_, _, _)
replaceTerm(t, what, by) ==
  IF t = what THEN by
  ELSE IF t.isVar THEN t
  ELSE Fn(t.id, [i \in 1..Len(t.args) |-> replaceTerm(t.args[i], what, by)])
replace(l, what, by) ==
  Lit(l.pred, l.pos, [i \in 1..Len(l.args) |-> replaceTerm(l.args[i], what, by)])

\* EqHelper::isEqTautology
isEqTautology(l) == isEquality(l) /\ l.pos /\ l.args[1] = l.args[2]

\* SortHelper::getTermSort of a non-variable subterm
getTermSort(trm) == functionResultSort(trm.id)

\* RobSubstitution::apply on a literal: [lit, bank, next]
applyLit(bk, next, l, index) ==
  IF \A i \in 1..Len(l.args) : Ground(l.args[i])
  THEN [lit |-> l, bank |-> bk, next |-> next]
  ELSE LET r == applyArgs(bk, next, Fn(l.pred, l.args), index, 1, <<>>)
       IN [lit |-> Lit(l.pred, l.pos, r.term.args), bank |-> r.bank, next |-> r.next]

\* Superposition::checkSuperpositionFromVariable
checkSuperpositionFromVariable(eqClause, eqLit, eqLHS) ==
  \A i \in 1..Len(eqClause.lits) :
    LET l == eqClause.lits[i]
    IN l = eqLit
       \/ IF isEquality(l)
          THEN \A k \in 1..2 : l.args[k].isVar \/ ~containsSubterm(l.args[k], eqLHS)
          ELSE \A k \in 1..Len(l.args) : ~containsSubterm(l.args[k], eqLHS)

\* the age given to the conclusion of a superposition
newAgeOfRewritten(rwClause, eqClause) == rwClause.age + 1
newAge(rwClause, eqClause) == IntMax(rwClause.age, eqClause.age) + 1

\* the substitution applied to a sequence of terms and literals, one after
\* the other as the code does: [xs, bank, next] with xs the instances
termItem(t, index) == [isLit |-> FALSE, x |-> t, index |-> index]
litItem(l, index) == [isLit |-> TRUE, x |-> l, index |-> index]
appliedTerm(r) == [x |-> r.term, bank |-> r.bank, next |-> r.next]
appliedLit(r) == [x |-> r.lit, bank |-> r.bank, next |-> r.next]
applyItem(s, item) ==
  IF item.isLit THEN appliedLit(applyLit(s.bank, s.next, item.x, item.index))
  ELSE appliedTerm(apply(s.bank, s.next, item.x, item.index))
RECURSIVE applySeq(_, _, _, _)
RECURSIVE applySeqNext(_, _, _, _)
applySeq(s, items, i, done) ==
  IF i > Len(items) THEN [xs |-> done, bank |-> s.bank, next |-> s.next]
  ELSE applySeqNext(applyItem(s, items[i]), items, i, done)
applySeqNext(r, items, i, done) == applySeq(r, items, i + 1, Append(done, r.x))

\* what performSuperposition applies the substitution to, in its order:
\* eqLHS, tgtTerm, rwLit, rwTerm (lines 486-490), the other literals of
\* rwClause (line 580) and the other literals of eqClause (line 615)
supItems(rwClause, rwLit, rwTerm, eqClause, eqLit, eqLHS, eqIsResult) ==
  LET eqIndex == IF eqIsResult THEN RESULT_BANK ELSE QUERY_BANK
      rwIndex == IF eqIsResult THEN QUERY_BANK ELSE RESULT_BANK
      rwOthers == SelectSeq(rwClause.lits, LAMBDA l : l # rwLit)
      eqOthers == SelectSeq(eqClause.lits, LAMBDA l : l # eqLit)
  IN <<termItem(eqLHS, eqIndex), termItem(getOtherEqualitySide(eqLit, eqLHS), eqIndex),
       litItem(rwLit, rwIndex), termItem(rwTerm, rwIndex)>>
       \o [k \in 1..Len(rwOthers) |-> litItem(rwOthers[k], rwIndex)]
       \o [k \in 1..Len(eqOthers) |-> litItem(eqOthers[k], eqIndex)]

\* the checks of performSuperposition on the instances xs of supItems and
\* its conclusion: the clause produced (or null), the step that decided,
\* and the instantiated terms the checks looked at
supConclusion(ord, rwClause, rwTerm, eqClause, eqLit, eqLHS, xs) ==
  LET eqLHSS == xs[1]
      tgtTermS == xs[2]
      rwLitS == xs[3]
      rwTermS == xs[4]
      others == SubSeq(xs, 5, Len(xs))
      tgtLitS == replace(rwLitS, rwTermS, tgtTermS)
      out(c, step) == [clause |-> c, step |-> step, eqLHSS |-> eqLHSS, tgtTermS |-> tgtTermS,
                       rwLitS |-> rwLitS, rwTermS |-> rwTermS]
  IN IF getTermSort(rwTerm) # getEqualityArgumentSort(eqLit) THEN out(NullClause, "sort")
     ELSE IF eqLHS.isVar /\ ~checkSuperpositionFromVariable(eqClause, eqLit, eqLHS)
     THEN out(NullClause, "fromVariable")
     ELSE IF isGorGEorE(compare(ord, tgtTermS, rwTermS)) THEN out(NullClause, "ordering")
     ELSE IF /\ isEquality(rwLitS)
             /\ \/ /\ ~containsSubterm(rwLitS.args[1], rwTermS)
                   /\ isGorGEorE(getEqualityArgumentOrder(ord, rwLitS))
                \/ /\ containsSubterm(rwLitS.args[1], rwTermS)
                   /\ ~containsSubterm(rwLitS.args[2], rwTermS)
                   /\ isGorGEorE(reverse(getEqualityArgumentOrder(ord, rwLitS)))
     THEN out(NullClause, "smallerSide")
     ELSE IF isEqTautology(tgtLitS) THEN out(NullClause, "tautology")
     ELSE IF \E k \in 1..Len(others) : isEqTautology(others[k])
     THEN out(NullClause, "construction")
     ELSE out(Clause(<<tgtLitS>> \o others, 0, newAge(rwClause, eqClause)), "produced")

\* Superposition::performSuperposition with no weight limit, no unification
\* constraints, no colors and without the literal maximality aftercheck;
\* subst is [bank, next]
performSuperposition(ord, rwClause, rwLit, rwTerm, eqClause, eqLit, eqLHS, subst, eqIsResult) ==
  supConclusion(ord, rwClause, rwTerm, eqClause, eqLit, eqLHS,
                applySeq(subst, supItems(rwClause, rwLit, rwTerm, eqClause, eqLit, eqLHS, eqIsResult),
                         1, <<>>).xs)

\* Literal::headersMatch
headersMatch(l1, l2, complementary) ==
  header(l1) = (IF complementary THEN complementaryHeader(l2) ELSE header(l2))

\* the pairs a combination iterator yields from <<first, second>> on, in
\* its order: by the first position, then by the second
RECURSIVE combinationsFrom(_, _, _, _)
combinationsFrom(first, second, to1, to2) ==
  IF first >= to1 THEN <<>>
  ELSE IF second >= to2 THEN combinationsFrom(first + 1, first + 2, to1, to2)
  ELSE <<(<<first, second>>)>> \o combinationsFrom(first, second + 1, to1, to2)

\* all pairs of positions below to2, whatever to1 is
allCombinations(from, to1, to2) == combinationsFrom(from, from + 1, to2, to2)

\* getCombinationIterator(0, numSelected, length): the pairs of positions
\* with the first one selected and the second one after it, in the order
\* the iterator yields them
getCombinationIterator(from, to1, to2) == combinationsFrom(from, from + 1, to1, to2)

\* Factoring::UnificationsOnPositiveFn: the unifier of the literals at the
\* two positions (0-based), or none
UnificationsOnPositiveFn(cl, nums) ==
  LET l1 == cl.lits[nums[1] + 1]
      l2 == cl.lits[nums[2] + 1]
      u == unify(EmptyBank, TermSpec(Fn(l1.pred, l1.args), 0), TermSpec(Fn(l2.pred, l2.args), 0))
  IN IF isEquality(l1) \/ isNegativeForSelection(l1) \/ ~headersMatch(l1, l2, FALSE) \/ ~u.ok
     THEN [any |-> FALSE, skipped |-> l2, bank |-> EmptyBank]
     ELSE [any |-> TRUE, skipped |-> l2, bank |-> u.bank]

\* the loop of Factoring::ResultsFn over the literals other than skipped;
\* next is the number of the next fresh variable of the substitution
RECURSIVE factorOthers(_, _, _, _, _, _, _)
factorOthers(ord, s, cl, i, skipped, skippedAfter, done) ==
  IF i > Len(cl.lits) THEN [lits |-> done, fail |-> FALSE, next |-> s.next]
  ELSE IF cl.lits[i] = skipped
  THEN factorOthers(ord, s, cl, i + 1, skipped, skippedAfter, done)
  ELSE LET r == applyLit(s.bank, s.next, cl.lits[i], 0)
       IN IF /\ skippedAfter.checked
             /\ i - 1 < cl.numSelected
             /\ compareLit(ord, r.lit, skippedAfter.lit) = GREATER
          THEN [lits |-> done, fail |-> TRUE, next |-> r.next]
          ELSE factorOthers(ord, r, cl, i + 1, skipped, skippedAfter, Append(done, r.lit))

\* Factoring::ResultsFn on the unifier bk of a substitution whose next
\* fresh variable is next: the factor, or null when the aftercheck blocks
\* it, and the next fresh variable afterwards
ResultsFn(ord, cl, afterCheck, skipped, bk, next) ==
  LET sa == applyLit(bk, next, skipped, 0)
      checked == afterCheck /\ cl.numSelected > 1
      s0 == IF checked THEN [bank |-> sa.bank, next |-> sa.next] ELSE [bank |-> bk, next |-> next]
      r == factorOthers(ord, s0, cl, 1, skipped, [checked |-> checked, lit |-> sa.lit], <<>>)
  IN [clause |-> IF r.fail THEN NullClause ELSE Clause(r.lits, 0, cl.age + 1), next |-> r.next]

\* the iterator chain of Factoring::generateClauses run over the pairs from
\* the i-th on, up to the pair nums: the one substitution made by
\* UnificationsOnPositiveFn is emptied by backtracking between the pairs
\* but keeps counting its fresh variables
RECURSIVE factorPairs(_, _, _, _, _, _, _)
RECURSIVE factorPair(_, _, _, _, _, _, _, _)
RECURSIVE factorResult(_, _, _, _, _, _, _)
factorPairs(ord, premise, afterCheck, pairs, i, next, nums) ==
  IF i > Len(pairs) THEN NullClause
  ELSE factorPair(ord, premise, afterCheck, pairs, i, next, nums,
                  UnificationsOnPositiveFn(premise, pairs[i]))
\* u is what UnificationsOnPositiveFn gave for the i-th pair
factorPair(ord, premise, afterCheck, pairs, i, next, nums, u) ==
  IF u.any
  THEN factorResult(ord, premise, afterCheck, pairs, i, nums,
                    ResultsFn(ord, premise, afterCheck, u.skipped, u.bank, next))
  ELSE IF pairs[i] = nums THEN NullClause
  ELSE factorPairs(ord, premise, afterCheck, pairs, i + 1, next, nums)
\* r is what ResultsFn gave for the unifier of the i-th pair
factorResult(ord, premise, afterCheck, pairs, i, nums, r) ==
  IF pairs[i] = nums THEN r.clause
  ELSE factorPairs(ord, premise, afterCheck, pairs, i + 1, r.next, nums)

\* Factoring::generateClauses looked at for one pair of positions: the
\* clause the iterator yields for it, or null when it yields none or does
\* not come to the pair
generateClauses(ord, premise, afterCheck, nums) ==
  IF Len(premise.lits) <= 1 THEN NullClause
  ELSE IF premise.numSelected = 1 /\ isNegativeForSelection(premise.lits[1]) THEN NullClause
  ELSE factorPairs(ord, premise, afterCheck,
                   getCombinationIterator(0, premise.numSelected, Len(premise.lits)), 1, 0, nums)

\* the ages of the premises
MaxAge == 2

\* the premises of superposition: the literal used and at most one other
SupX == Var(0)
SupA == Fn(FunA, <<>>)
SupFA == Fn(FunF, <<SupA>>)
SupRwLits ==
  {Lit(PredP, TRUE, <<SupFA>>), Lit(PredP, FALSE, <<Fn(FunF, <<SupX>>)>>),
   Lit(PredP, TRUE, <<Fn(FunG, <<SupA, SupA>>)>>), Lit(PredP, TRUE, <<Fn(FunB, <<>>)>>),
   Lit(PredEq, TRUE, <<SupFA, SupA>>), Lit(PredEq, FALSE, <<SupA, Fn(FunF, <<SupX>>)>>),
   Lit(PredEq, TRUE, <<Fn(FunG, <<SupX, SupX>>), SupFA>>),
   Lit(PredEq, FALSE, <<Fn(FunG, <<SupA, SupA>>), Fn(FunG, <<SupA, SupA>>)>>)}
SupEqLits ==
  {Lit(PredEq, TRUE, <<SupFA, SupA>>), Lit(PredEq, TRUE, <<SupX, Fn(FunF, <<SupX>>)>>),
   Lit(PredEq, TRUE, <<Fn(FunG, <<SupX, Var(1)>>), Fn(FunG, <<Var(1), SupX>>)>>),
   Lit(PredEq, TRUE, <<Fn(FunF, <<SupX>>), Fn(FunG, <<SupX, SupA>>)>>),
   Lit(PredEq, TRUE, <<SupX, SupA>>)}
\* the side literal of the rewritten premise and of the equality premise
SupRwSide == Lit(PredEq, TRUE, <<SupX, SupA>>)
SupEqSide == Lit(PredQ, TRUE, <<SupX>>)
SupClauses(main, side) ==
  {Clause(<<l>>, 1, age) : l \in main, age \in 0..MaxAge}
    \cup {Clause(<<l, side>>, 1, age) : l \in main \ {side}, age \in 0..MaxAge}

\* the non-variable subterms of a literal
RECURSIVE NonVarSubterms(_)
NonVarSubterms(t) ==
  IF t.isVar THEN {}
  ELSE {t} \cup UNION {NonVarSubterms(t.args[i]) : i \in 1..Len(t.args)}
LitSubterms(l) == UNION {NonVarSubterms(l.args[i]) : i \in 1..Len(l.args)}

\* the pairs of positions of a premise of at most three literals
FactPairs == {nums \in (0..2) \X (0..2) : nums[1] < nums[2]}

\* the premises of factoring: two or three distinct literals
FactLits ==
  {Lit(PredP, TRUE, <<SupX>>), Lit(PredP, TRUE, <<SupA>>), Lit(PredP, TRUE, <<Fn(FunF, <<Var(1)>>)>>),
   Lit(PredP, FALSE, <<SupA>>), Lit(PredQ, TRUE, <<SupA>>)}
FactClauses ==
  {Clause(ls, n, age) : ls \in {s \in SeqsOfLen(FactLits, 2) \cup SeqsOfLen(FactLits, 3) :
                                  \A i, j \in DOMAIN s : i # j => s[i] # s[j]},
                        n \in 1..2, age \in 0..MaxAge}

InfOrderings ==
  {PrecedenceOrdering("STANDARD", <<PredEq, PredP, PredQ>>, fp) : fp \in KboPrecedences}

InfStart(ord) == [op |-> "none", ord |-> ord]
InfIdle == infer = InfStart(PrecedenceOrdering("STANDARD", <<PredEq, PredP, PredQ>>, FunctionOrder))

\* the record of a call of performSuperposition and of its result r
superposed(ord, rwClause, rwTerm, eqClause, eqLHS, eqIsResult, r) ==
  [op |-> "superposition", ord |-> ord, premises |-> <<rwClause, eqClause>>,
   rwLit |-> rwClause.lits[1], rwTerm |-> rwTerm, eqLit |-> eqClause.lits[1], eqLHS |-> eqLHS,
   eqIsResult |-> eqIsResult, clause |-> r.clause, step |-> r.step,
   tgtTermS |-> r.tgtTermS, rwLitS |-> r.rwLitS, rwTermS |-> r.rwTermS, eqLHSS |-> r.eqLHSS]

\* the unifier the index found for the rewritten term and the equality
\* side: the query term is in the query bank, the indexed one in the
\* result bank
indexUnifier(rwTerm, eqLHS, eqIsResult) ==
  unify(EmptyBank, TermSpec(IF eqIsResult THEN rwTerm ELSE eqLHS, QUERY_BANK),
        TermSpec(IF eqIsResult THEN eqLHS ELSE rwTerm, RESULT_BANK))
substOf(u) == [bank |-> u.bank, next |-> 0]

\* Superposition::ForwardResultFn / BackwardResultFn: the index returned a
\* unifier of the rewritten term and the equality side, and
\* performSuperposition is called with it
Superpose(rwClause, rwTerm, eqClause, eqLHS, eqIsResult) ==
  /\ infer.op = "none"
  /\ indexUnifier(rwTerm, eqLHS, eqIsResult).ok
  /\ eqLHS.isVar => ~containsSubterm(getOtherEqualitySide(eqClause.lits[1], eqLHS), eqLHS)
  /\ infer' = superposed(infer.ord, rwClause, rwTerm, eqClause, eqLHS, eqIsResult,
                         performSuperposition(infer.ord, rwClause, rwClause.lits[1], rwTerm,
                                              eqClause, eqClause.lits[1], eqLHS,
                                              substOf(indexUnifier(rwTerm, eqLHS, eqIsResult)),
                                              eqIsResult))
  /\ UNCHANGED notInfVars

\* Factoring::generateClauses on a premise, looked at for one pair of
\* positions
Factor(premise, afterCheck, nums) ==
  /\ infer.op = "none"
  /\ premise.numSelected <= Len(premise.lits)
  /\ infer' = [op |-> "factoring", ord |-> infer.ord, premises |-> <<premise>>,
               afterCheck |-> afterCheck, nums |-> nums,
               clause |-> generateClauses(infer.ord, premise, afterCheck, nums)]
  /\ UNCHANGED notInfVars

\* the conclusion is handed over
InfReturn ==
  /\ infer.op # "none"
  /\ infer' = InfStart(infer.ord)
  /\ UNCHANGED notInfVars

InfNext ==
  \/ /\ infer.op = "none"
     /\ \E rwClause \in SupClauses(SupRwLits, SupRwSide), eqClause \in SupClauses(SupEqLits, SupEqSide), eqIsResult \in BOOLEAN :
          \E rwTerm \in LitSubterms(rwClause.lits[1]), eqLHS \in {eqClause.lits[1].args[1], eqClause.lits[1].args[2]} :
             Superpose(rwClause, rwTerm, eqClause, eqLHS, eqIsResult)
  \/ /\ infer.op = "none"
     /\ \E premise \in FactClauses, afterCheck \in BOOLEAN :
          \E nums \in FactPairs : Factor(premise, afterCheck, nums)
  \/ InfReturn

\* C18: every clause produced by superposition or factoring has the age
\* max(ages of its premises) + 1
C18_AgeIsMaxPremiseAgePlusOne ==
  (infer.op # "none" /\ ~isNull(infer.clause)) =>
     \E m \in 0..MaxAge :
        /\ \E i \in 1..Len(infer.premises) : infer.premises[i].age = m
        /\ \A i \in 1..Len(infer.premises) : infer.premises[i].age <= m
        /\ infer.clause.age = m + 1

\* a superposition of two premises of different ages, the equality premise
\* being the older one, produced a clause
C18_Witness ==
  /\ infer.op = "superposition"
  /\ ~isNull(infer.clause)
  /\ infer.premises[2].age > infer.premises[1].age

\* the side of the instantiated equality rwLitS that alone holds the
\* rewritten term, if there is one: 1, 2, or 0
onlySideTouched ==
  LET in1 == containsSubterm(infer.rwLitS.args[1], infer.rwTermS)
      in2 == containsSubterm(infer.rwLitS.args[2], infer.rwTermS)
  IN IF in1 /\ ~in2 THEN 1 ELSE IF in2 /\ ~in1 THEN 2 ELSE 0

\* the rewrite is demonstrably increasing: the replacement is greater than
\* or equal to the rewritten term
replacementNotSmaller ==
  compare(infer.ord, infer.tgtTermS, infer.rwTermS) \in {GREATER, GREATER_EQ, EQUAL}

\* the rewritten literal is an equality and the rewrite touches only its
\* smaller side
onlySmallerSideTouched ==
  /\ infer.rwLitS.pred = PredEq
  /\ onlySideTouched # 0
  /\ compare(infer.ord, infer.rwLitS.args[3 - onlySideTouched],
             infer.rwLitS.args[onlySideTouched]) = GREATER

\* C20: performSuperposition produces no clause when the instantiated
\* replacement side is greater than or equal to the instantiated rewritten
\* term, nor when the rewritten literal is an equality and the rewrite
\* touches only its smaller side
C20_NoClauseForIncreasingRewrite ==
  infer.op = "superposition" =>
     ((replacementNotSmaller \/ onlySmallerSideTouched) => isNull(infer.clause))

\* the replacement is smaller than the rewritten term, but the rewritten
\* term lies only in the smaller side of an equality: no clause
C20_Witness ==
  /\ infer.op = "superposition"
  /\ infer.step = "smallerSide"
  /\ ~replacementNotSmaller
  /\ onlySmallerSideTouched
  /\ isNull(infer.clause)

\* the two literals of the premise a factoring call looked at; positions
\* are 0-based and the first numSelected literals are the selected ones
factoredFirst == infer.premises[1].lits[infer.nums[1] + 1]
factoredSecond == infer.premises[1].lits[infer.nums[2] + 1]
factorProduced ==
  /\ infer.op = "factoring"
  /\ ~isNull(infer.clause)

\* C21 as stated: a factor is generated only from a pair of literals that
\* are both selected and have the same polarity and predicate
C21_BothFactoredLiteralsSelected ==
  factorProduced =>
     /\ infer.nums[1] < infer.premises[1].numSelected
     /\ infer.nums[2] < infer.premises[1].numSelected
     /\ factoredFirst.pred = factoredSecond.pred
     /\ factoredFirst.pos = factoredSecond.pos

\* C21 amended: a factor is generated only from a pair of distinct
\* literals of which at least one is selected and which have the same
\* polarity and predicate; none is generated from a pair in which neither
\* literal is selected
C21_OneFactoredLiteralSelected ==
  factorProduced =>
     /\ infer.nums[1] # infer.nums[2]
     /\ \/ infer.nums[1] < infer.premises[1].numSelected
        \/ infer.nums[2] < infer.premises[1].numSelected
     /\ factoredFirst.pred = factoredSecond.pred
     /\ factoredFirst.pos = factoredSecond.pos

\* a factor generated from a selected literal and one that is not selected,
\* in a premise that also has a pair of unselected literals
C21_Witness ==
  /\ factorProduced
  /\ infer.premises[1].numSelected = 1
  /\ Len(infer.premises[1].lits) = 3
  /\ infer.nums[1] = 0
  /\ infer.nums[2] >= 1

(***************************************************************************)
(* Forward demodulation: ForwardDemodulation::perform                      *)
(* (Inferences/ForwardDemodulation.cpp) over the demodulation LHS index.   *)
(***************************************************************************)
\* TermList::containsAllVariablesOf
containsAllVariablesOf(t, s) == TermVars(s) \subseteq TermVars(t)

\* EqHelper::getDemodulationLHSIterator: the sides of a positive equality
\* that may be used as the left-hand side of a rewrite: the larger side of
\* an oriented equation; for an unoriented one, unless only preordered
\* equations are used, each side that holds all variables of the other
getDemodulationLHSIterator(ord, l, preorderedOnly) ==
  LET t0 == l.args[1]
      t1 == l.args[2]
      o == getEqualityArgumentOrder(ord, l)
  IN IF ~l.pos THEN {}
     ELSE IF o = INCOMPARABLE
     THEN IF preorderedOnly THEN {}
          ELSE {t \in {t0} : containsAllVariablesOf(t0, t1)}
                 \cup {t \in {t1} : containsAllVariablesOf(t1, t0)}
     ELSE IF o \in {GREATER, GREATER_EQ} THEN {t0}
     ELSE IF o \in {LESS, LESS_EQ} THEN {t1}
     ELSE {}

\* DemodulationLHSIndex::handleClause: the entries a unit equality clause
\* has in the index
demodulationEntries(ord, cls, preorderedOnly) ==
  IF Len(cls.lits) # 1 \/ ~isEquality(cls.lits[1]) THEN {}
  ELSE {[term |-> t, literal |-> cls.lits[1], clause |-> cls] :
          t \in getDemodulationLHSIterator(ord, cls.lits[1], preorderedOnly)}

\* TermIndex::getGeneralizations(trm, true): the entries whose term matches
\* onto trm, each with its matching substitution
getGeneralizations(index, trm) ==
  {[term |-> e.term, literal |-> e.literal, clause |-> e.clause,
    substitution |-> match(EmptyBank, TermSpec(e.term, RESULT_BANK), TermSpec(trm, QUERY_BANK)).bank] :
     e \in {x \in index :
              match(EmptyBank, TermSpec(x.term, RESULT_BANK), TermSpec(trm, QUERY_BANK)).ok}}

\* ResultSubstitution::applyToBoundResult: the variables of a result term
\* replaced by the query terms they are bound to
RECURSIVE applyToBoundResult(_, _)
applyToBoundResult(bk, t) ==
  IF t.isVar THEN bk[VarSpec(t.id, RESULT_BANK)].term
  ELSE Fn(t.id, [i \in 1..Len(t.args) |-> applyToBoundResult(bk, t.args[i])])
applyToBoundResultLit(bk, l) ==
  Lit(l.pred, l.pos, [i \in 1..Len(l.args) |-> applyToBoundResult(bk, l.args[i])])

\* NonVariableIterator: the non-variable subterms, each before its own
\* subterms, the arguments left to right
RECURSIVE NonVariableIterator(_)
RECURSIVE NonVariableIteratorArgs(_, _)
NonVariableIterator(t) ==
  IF t.isVar THEN <<>> ELSE <<t>> \o NonVariableIteratorArgs(t.args, 1)
NonVariableIteratorArgs(as, i) ==
  IF i > Len(as) THEN <<>>
  ELSE NonVariableIterator(as[i]) \o NonVariableIteratorArgs(as, i + 1)

\* the ordering test of perform: the rewrite is made when the equation is
\* oriented, or when the instance of its left-hand side is greater than
\* the instance of its right-hand side
orderingTestOrientedOrAny(ord, preorderedOnly, qr, trm, rhsS) ==
  LET argOrder == getEqualityArgumentOrder(ord, qr.literal)
      preordered == argOrder = LESS \/ argOrder = GREATER
  IN preordered \/ ~preorderedOnly
orderingTest(ord, preorderedOnly, qr, trm, rhsS) ==
  LET argOrder == getEqualityArgumentOrder(ord, qr.literal)
      preordered == argOrder = LESS \/ argOrder = GREATER
  IN ~(~preordered /\ (preorderedOnly \/ compare(ord, trm, rhsS) # GREATER))

\* the top-level check of perform: TRUE when it forbids the rewrite
toplevelCheckBlocks(ord, cl, li, trm, qr, rhsS) ==
  LET other == getOtherEqualitySide(cl.lits[li], trm)
      tord == compare(ord, rhsS, other)
      eqLitS == applyToBoundResultLit(qr.substitution, qr.literal)
  IN /\ tord # LESS
     /\ tord # LESS_EQ
     /\ \A li2 \in 1..Len(cl.lits) :
          li2 = li \/ compareLit(ord, eqLitS, cl.lits[li2]) # LESS

\* the results of the index for trm in the literal li that pass the checks
\* of perform
applicableRewrites(ord, opt, index, cl, li, trm) ==
  LET lit == cl.lits[li]
      toplevelCheck == opt.demodulationRedundancyCheck /\ isEquality(lit)
                         /\ (trm = lit.args[1] \/ trm = lit.args[2])
  IN {qr \in getGeneralizations(index, trm) :
        LET rhs == getOtherEqualitySide(qr.literal, qr.term)
            rhsS == applyToBoundResult(qr.substitution, rhs)
        IN /\ getTermSort(trm) = getEqualityArgumentSort(qr.literal)
           /\ orderingTest(ord, opt.preorderedOnly, qr, trm, rhsS)
           /\ ~(toplevelCheck /\ toplevelCheckBlocks(ord, cl, li, trm, qr, rhsS))}

\* the terms perform tries, in its order: literal by literal, each term
\* once (the set attempted)
RECURSIVE attempts(_, _, _, _)
attempts(cl, li, seen, done) ==
  IF li > Len(cl.lits) THEN done
  ELSE LET ts == NonVariableIteratorArgs(cl.lits[li].args, 1)
           new == SelectSeq(ts, LAMBDA t : t \notin seen)
           firsts == {k \in 1..Len(new) : \A j \in 1..(k - 1) : new[j] # new[k]}
           entries == [k \in 1..Len(new) |-> [li |-> li, trm |-> new[k], first |-> k \in firsts]]
       IN attempts(cl, li + 1, seen \cup {ts[k] : k \in 1..Len(ts)},
                   done \o SelectSeq(entries, LAMBDA e : e.first))

\* the outcome of perform for one result of the index
rewriteWith(cl, li, trm, qr) ==
  LET lit == cl.lits[li]
      rhs == getOtherEqualitySide(qr.literal, qr.term)
      rhsS == applyToBoundResult(qr.substitution, rhs)
      resLit == replace(lit, trm, rhsS)
      others == SelectSeq(cl.lits, LAMBDA l : l # lit)
  IN [applied |-> TRUE, li |-> li, trm |-> trm, qr |-> qr, rhs |-> rhs, rhsS |-> rhsS,
      lhsS |-> applyToBoundResult(qr.substitution, qr.term),
      replacement |-> IF isEqTautology(resLit) THEN NullClause
                      ELSE Clause(<<resLit>> \o others, 0, cl.age),
      premises |-> {qr.clause}]

\* ForwardDemodulation::perform: the set of its possible outcomes; the
\* index yields its results in an order the model leaves open
RECURSIVE performFrom(_, _, _, _, _, _)
performFrom(ord, opt, index, cl, todo, k) ==
  IF k > Len(todo)
  THEN {[applied |-> FALSE, replacement |-> NullClause, premises |-> {}]}
  ELSE LET qrs == applicableRewrites(ord, opt, index, cl, todo[k].li, todo[k].trm)
       IN IF qrs = {} THEN performFrom(ord, opt, index, cl, todo, k + 1)
          ELSE {rewriteWith(cl, todo[k].li, todo[k].trm, qr) : qr \in qrs}
perform(ord, opt, index, cl) ==
  performFrom(ord, opt, index, cl, attempts(cl, 1, {}, <<>>), 1)

\* the number of demodulators in the index
MaxDemodulators == 2

\* the unit equalities used as demodulators
DemX == Var(0)
DemY == Var(1)
DemA == Fn(FunA, <<>>)
DemEqualities ==
  {Lit(PredEq, TRUE, <<Fn(FunF, <<DemA>>), DemA>>),
   Lit(PredEq, TRUE, <<DemX, Fn(FunF, <<Fn(FunF, <<DemX>>)>>)>>),
   Lit(PredEq, TRUE, <<Fn(FunG, <<DemX, DemY>>), Fn(FunG, <<DemY, DemX>>)>>),
   Lit(PredEq, TRUE, <<Fn(FunF, <<DemX>>), Fn(FunF, <<DemY>>)>>),
   Lit(PredEq, TRUE, <<DemX, DemA>>),
   Lit(PredEq, FALSE, <<Fn(FunF, <<DemA>>), DemA>>)}
Demodulators == {Clause(<<l>>, 1, 0) : l \in DemEqualities}

\* the clauses simplified
DemTerms ==
  {Fn(FunF, <<DemA>>), Fn(FunF, <<Fn(FunF, <<DemA>>)>>), Fn(FunG, <<DemA, Fn(FunF, <<DemA>>)>>),
   Fn(FunG, <<Fn(FunF, <<DemX>>), DemA>>), Fn(FunB, <<>>)}
DemLiterals ==
  {Lit(PredP, pos, <<t>>) : pos \in BOOLEAN, t \in DemTerms}
    \cup {Lit(PredEq, TRUE, <<Fn(FunF, <<DemA>>), DemA>>),
          Lit(PredEq, TRUE, <<Fn(FunF, <<Fn(FunF, <<DemA>>)>>), DemA>>),
          Lit(PredEq, FALSE, <<Fn(FunG, <<DemA, Fn(FunF, <<DemA>>)>>), Fn(FunF, <<DemX>>)>>)}
DemClauses ==
  {Clause(<<l>>, 1, age) : l \in DemLiterals, age \in {1}}
    \cup {Clause(<<l, Lit(PredQ, TRUE, <<DemA>>)>>, 1, age) : l \in DemLiterals, age \in {1}}
    \cup {Clause(<<Lit(PredQ, TRUE, <<DemA>>), l>>, 1, age) : l \in DemLiterals, age \in {1}}

DemOptions == [preorderedOnly : BOOLEAN, demodulationRedundancyCheck : BOOLEAN]

DemStart(ord, opt) == [op |-> "none", ord |-> ord, opt |-> opt, index |-> {}]
DemIdle ==
  demod = DemStart(PrecedenceOrdering("STANDARD", <<PredEq, PredP, PredQ>>, FunctionOrder),
                   [preorderedOnly |-> FALSE, demodulationRedundancyCheck |-> FALSE])

\* a unit clause becomes active: DemodulationLHSIndex::handleClause(c, true)
DemInsert(cls) ==
  /\ demod.op = "none"
  /\ Cardinality({e.clause : e \in demod.index}) < MaxDemodulators
  /\ demodulationEntries(demod.ord, cls, demod.opt.preorderedOnly) \ demod.index # {}
  /\ demod' = [demod EXCEPT !.index = @ \cup demodulationEntries(demod.ord, cls, demod.opt.preorderedOnly)]
  /\ UNCHANGED notDemVars

\* a unit clause leaves active: DemodulationLHSIndex::handleClause(c, false)
DemRemove(cls) ==
  /\ demod.op = "none"
  /\ \E e \in demod.index : e.clause = cls
  /\ demod' = [demod EXCEPT !.index = {e \in @ : e.clause # cls}]
  /\ UNCHANGED notDemVars

\* perform(cl, replacement, premises) is called
DemPerform(cl) ==
  /\ demod.op = "none"
  /\ \E r \in perform(demod.ord, demod.opt, demod.index, cl) :
       demod' = [op |-> "perform", ord |-> demod.ord, opt |-> demod.opt, index |-> demod.index,
                 cl |-> cl, res |-> r]
  /\ UNCHANGED notDemVars

\* perform returns
DemReturn ==
  /\ demod.op = "perform"
  /\ demod' = [op |-> "none", ord |-> demod.ord, opt |-> demod.opt, index |-> demod.index]
  /\ UNCHANGED notDemVars

DemNext ==
  \/ \E cls \in Demodulators : DemInsert(cls)
  \/ \E cls \in Demodulators : DemRemove(cls)
  \/ \E cl \in DemClauses : DemPerform(cl)
  \/ DemReturn

\* the demodulator equation is oriented and the side matched is its
\* larger one
preOrientedWithMatchedSideLarger ==
  LET r == demod.res
  IN compare(demod.ord, r.qr.term, r.rhs) = GREATER

\* C19: every rewrite forward demodulation applies replaces the instance
\* of the matched side of the equation, which is the subterm rewritten, by
\* a strictly smaller instance of the other side; the equation is oriented
\* with the matched side as the larger one, or the instances compare as
\* GREATER; with only preordered equations allowed, the first is the case
C19_RewritesAreDecreasing ==
  (demod.op = "perform" /\ demod.res.applied) =>
     /\ demod.res.lhsS = demod.res.trm
     /\ compare(demod.ord, demod.res.trm, demod.res.rhsS) = GREATER
     /\ preOrientedWithMatchedSideLarger
          \/ (~demod.opt.preorderedOnly
                /\ compare(demod.ord, demod.res.lhsS, demod.res.rhsS) = GREATER)

\* a rewrite was applied with an equation that is not oriented, on an
\* instance on which its sides compare as GREATER
C19_Witness ==
  /\ demod.op = "perform"
  /\ demod.res.applied
  /\ ~preOrientedWithMatchedSideLarger
  /\ compare(demod.ord, demod.res.lhsS, demod.res.rhsS) = GREATER
  /\ ~isNull(demod.res.replacement)

(***************************************************************************)
(* Global subsumption: GlobalSubsumption::perform                          *)
(* (Inferences/GlobalSubsumption.cpp) over a SAT solver with assumptions.  *)
(* The grounder and the solver are collaborators: the solver is a set of   *)
(* SAT clauses, and its answer to a query is any answer a sound solver can *)
(* give.                                                                   *)
(***************************************************************************)
\* SATSolver::Status
SATISFIABLE == "SATISFIABLE"
UNSATISFIABLE == "UNSATISFIABLE"
UNKNOWN == "UNKNOWN"

COLOR_TRANSPARENT == "COLOR_TRANSPARENT"
COLOR_LEFT == "COLOR_LEFT"

\* a clause with its color and its split levels (in iteration order)
GsClause(lits, age, color, splits) ==
  [lits |-> lits, age |-> age, color |-> color, splits |-> splits]

SATLiteral(v, polarity) == [var |-> v, polarity |-> polarity]
\* SATLiteral::opposite
opposite(l) == SATLiteral(l.var, ~l.polarity)
\* the elements of a stack
stackElements(s) == {s[i] : i \in 1..Len(s)}

\* the propositional variable of a literal: the atom with every variable
\* replaced by the same one
RECURSIVE groundTerm(_)
groundTerm(t) ==
  IF t.isVar THEN Var(0)
  ELSE Fn(t.id, [i \in 1..Len(t.args) |-> groundTerm(t.args[i])])
groundLiteral(l) ==
  SATLiteral([pred |-> l.pred, args |-> [i \in 1..Len(l.args) |-> groundTerm(l.args[i])]], l.pos)
\* Grounder::groundNonProp: the SAT literals of the literals of cl, in order
groundNonProp(cl) == [i \in 1..Len(cl.lits) |-> groundLiteral(cl.lits[i])]
\* the propositional variable of a split level
splitLevelToVar(l) == [level |-> l]

\* the clause set with the assumed literals has a model
satisfiable(clauses, assumed) ==
  \E m \in SUBSET ({l.var : l \in UNION clauses} \cup {l.var : l \in assumed}) :
     /\ \A c \in clauses : \E l \in c : l.polarity = (l.var \in m)
     /\ \A l \in assumed : l.polarity = (l.var \in m)

\* the elements of a stack at the positions in keep, bottom first
RECURSIVE subStack(_, _, _)
subStack(s, keep, i) ==
  IF i > Len(s) THEN <<>>
  ELSE (IF i \in keep THEN <<s[i]>> ELSE <<>>) \o subStack(s, keep, i + 1)
subStacks(s) == {subStack(s, keep, 1) : keep \in SUBSET (1..Len(s))}

\* SATSolverWithAssumptions::solveUnderAssumptions followed by
\* failedAssumptions: the answers a sound solver of any power can give.
\* UNSATISFIABLE comes with assumptions that suffice for it; SATISFIABLE is
\* possible when some proper subset of the assumptions has a model; UNKNOWN
\* is always possible.  After another answer than UNSATISFIABLE the failed
\* assumptions hold whatever the search left there.
solveUnderAssumptions(clauses, assumps) ==
  {[status |-> UNSATISFIABLE, failed |-> f] :
     f \in {g \in subStacks(assumps) : ~satisfiable(clauses, stackElements(g))}}
  \cup {[status |-> SATISFIABLE, failed |-> f] :
     f \in {g \in subStacks(assumps) :
              \E h \in subStacks(assumps) :
                 Len(h) < Len(assumps) /\ satisfiable(clauses, stackElements(h))}}
  \cup {[status |-> UNKNOWN, failed |-> f] : f \in subStacks(assumps)}

\* SATSolverWithAssumptions::explicitlyMinimizedFailedAssumptions: a part of
\* the failed assumptions that suffices and of which no assumption can be
\* left out
explicitlyMinimizedFailedAssumptions(clauses, failed) ==
  {g \in subStacks(failed) :
     /\ ~satisfiable(clauses, stackElements(g))
     /\ \A h \in subStacks(g) : Len(h) < Len(g) => satisfiable(clauses, stackElements(h))}

\* the assumptions: the opposites of the literals of cl, then the split
\* levels of cl (without a splitter) or the active ones (with it)
gsAssumps(cfg, cl, plits, active) ==
  [i \in 1..Len(plits) |-> opposite(plits[i])]
    \o (IF cfg.splitter THEN <<>>
        ELSE [i \in 1..Len(cl.splits) |-> SATLiteral(splitLevelToVar(cl.splits[i]), TRUE)])
    \o (IF cfg.splitter
        THEN [i \in 1..Len(active) |-> SATLiteral(splitLevelToVar(active[i]), TRUE)]
        ELSE <<>>)

\* SATClause::fromStack(plits) once the split levels of cl are pushed
gsSatClause(cl, plits) ==
  stackElements(plits) \cup {SATLiteral(splitLevelToVar(cl.splits[i]), FALSE) : i \in 1..Len(cl.splits)}

\* the first-order literals found in lookup for the failed assumptions
RECURSIVE survivorsOf(_, _, _, _)
survivorsOf(failedFinal, plits, cl, i) ==
  IF i > Len(failedFinal) THEN <<>>
  ELSE (IF \E j \in 1..Len(plits) : plits[j] = opposite(failedFinal[i])
        THEN <<cl.lits[CHOOSE j \in 1..Len(plits) : plits[j] = opposite(failedFinal[i])]>>
        ELSE <<>>) \o survivorsOf(failedFinal, plits, cl, i + 1)

\* the result of perform/2: cl itself, or a new clause
gsUnchanged(cl, status, clauses) ==
  [same |-> TRUE, clause |-> cl, status |-> status, solver |-> clauses]
gsReplacement(cl, survivors, clen, status, clauses) ==
  IF Len(survivors) < clen
  THEN [same |-> FALSE, clause |-> GsClause(survivors, cl.age, COLOR_TRANSPARENT, <<>>),
        status |-> status, solver |-> clauses]
  ELSE gsUnchanged(cl, status, clauses)

\* the test of the solver's answer
isNotSatisfiable(res) == res # SATISFIABLE

isUnsatisfiable(res) == res = UNSATISFIABLE

\* perform/2 from the solver's answer o on
gsReduce(cfg, cl, plits, assumps, clauses, o) ==
  IF isUnsatisfiable(o.status) /\ Len(o.failed) < Len(assumps)
  THEN {gsReplacement(cl, survivorsOf(failedFinal, plits, cl, 1), Len(plits), o.status, clauses) :
          failedFinal \in (IF cfg.explicitMinim
                           THEN explicitlyMinimizedFailedAssumptions(clauses, o.failed)
                           ELSE {o.failed})}
  ELSE {gsUnchanged(cl, o.status, clauses)}

gsSolve(cfg, cl, plits, assumps, clauses) ==
  UNION {gsReduce(cfg, cl, plits, assumps, clauses, o) : o \in solveUnderAssumptions(clauses, assumps)}

\* GlobalSubsumption::perform(cl, prems): the possible results; solver is the
\* content of the SAT solver, active the active split levels of the splitter
performGS(cfg, solver, cl, active) ==
  IF cl.color = COLOR_LEFT THEN {gsUnchanged(cl, "none", solver)}
  ELSE IF ~cfg.splittingAssumps /\ Len(cl.splits) # 0 THEN {gsUnchanged(cl, "none", solver)}
  ELSE gsSolve(cfg, cl, groundNonProp(cl), gsAssumps(cfg, cl, groundNonProp(cl), active),
               solver \cup {gsSatClause(cl, groundNonProp(cl))})

\* GlobalSubsumption::perform(cl, replacement, premises): whether cl was
\* simplified
performGS3(r) == ~r.same

\* the SAT clauses the solver may hold
MaxSatClauses == 2

GsX == Var(0)
GsA == Fn(FunA, <<>>)
GsLits ==
  {Lit(PredP, TRUE, <<GsX>>), Lit(PredP, TRUE, <<GsA>>), Lit(PredP, FALSE, <<GsA>>),
   Lit(PredQ, TRUE, <<>>)}
\* clauses of one or two literals with different propositional variables
GsClauses ==
  {GsClause(ls, 1, COLOR_TRANSPARENT, sp) :
     ls \in {s \in SeqsOfLen(GsLits, 1) \cup SeqsOfLen(GsLits, 2) :
               \A i, j \in DOMAIN s : i # j => groundLiteral(s[i]).var # groundLiteral(s[j]).var},
     sp \in {<<>>, <<0>>}}
  \cup {GsClause(<<Lit(PredP, TRUE, <<GsX>>), Lit(PredQ, TRUE, <<>>)>>, 1, COLOR_LEFT, <<>>)}
\* the options: globalSubsumptionAvatarAssumptions off, from the current
\* clause, or the full model (with the splitter); explicit minimization
GsConfigs ==
  {[splittingAssumps |-> sa, splitter |-> sp, explicitMinim |-> em] :
     sa \in BOOLEAN, sp \in BOOLEAN, em \in BOOLEAN} \ 
  {c \in [splittingAssumps : BOOLEAN, splitter : BOOLEAN, explicitMinim : BOOLEAN] :
     c.splitter /\ ~c.splittingAssumps}

GsStart(cfg) == [op |-> "none", cfg |-> cfg, solver |-> {}]
GsIdle == gsub = GsStart([splittingAssumps |-> FALSE, splitter |-> FALSE, explicitMinim |-> FALSE])

\* the forward simplification by global subsumption of cl
GsPerform(cl, active) ==
  /\ gsub.op = "none"
  /\ Cardinality(gsub.solver \cup {gsSatClause(cl, groundNonProp(cl))}) <= MaxSatClauses
  /\ \E r \in performGS(gsub.cfg, gsub.solver, cl, active) :
        gsub' = [op |-> "perform", cfg |-> gsub.cfg, solver |-> r.solver, cl |-> cl,
                 status |-> r.status, same |-> r.same, clause |-> r.clause,
                 simplified |-> performGS3(r)]
  /\ UNCHANGED notGsVars

\* the caller goes on with the result
GsReturn ==
  /\ gsub.op = "perform"
  /\ gsub' = [op |-> "none", cfg |-> gsub.cfg, solver |-> gsub.solver]
  /\ UNCHANGED notGsVars

GsNext ==
  \/ \E cl \in GsClauses, active \in {<<>>, <<0>>} : GsPerform(cl, active)
  \/ GsReturn

\* C22: when the solver answers the query with anything other than
\* UNSATISFIABLE, perform returns the original clause itself, unchanged,
\* and reports no simplification
C22_NotUnsatLeavesClause ==
  (gsub.op = "perform" /\ gsub.status \in {SATISFIABLE, UNKNOWN}) =>
     /\ gsub.same
     /\ gsub.clause = gsub.cl
     /\ ~gsub.simplified

\* the solver answered UNKNOWN although a proper part of the clause is
\* already refuted by the solver's clauses, and the clause came back
C22_Witness ==
  /\ gsub.op = "perform"
  /\ gsub.status = UNKNOWN
  /\ Len(gsub.cl.lits) = 2
  /\ \E l \in stackElements(groundNonProp(gsub.cl)) : ~satisfiable(gsub.solver, {opposite(l)})
  /\ gsub.same
  /\ ~gsub.simplified

(***************************************************************************)
(* The weight of a superposition conclusion under a weight limit: the      *)
(* bookkeeping of Superposition::performSuperposition while it builds the  *)
(* clause (Inferences/Superposition.cpp).  Literal::weight() is unsigned;  *)
(* the running weight and the limit are 32-bit ints.                       *)
(***************************************************************************)
\* the largest int
INT_MAX == 2147483647

\* an int weight plus an unsigned literal weight w <= INT_MAX, stored back
\* into the int without wrapping: a sum above INT_MAX stays at INT_MAX
addSaturating(weight, w) ==
  IF weight >= 0 /\ w > INT_MAX - weight THEN INT_MAX ELSE weight + w

\* weight += w for int weight and unsigned w <= INT_MAX: the sum is taken
\* modulo 2^32 and stored back into the int, so a sum above INT_MAX comes
\* out as the sum minus 2^32
addToWeight(weight, w) ==
  IF weight >= 0 /\ w > INT_MAX - weight
  THEN (((weight - INT_MAX) + w) - INT_MAX) - 2
  ELSE weight + w

\* the sum weight + w is not representable as an int
exceedsInt(weight, w) == weight >= 0 /\ w > INT_MAX - weight

\* the loops over the other literals of the two premises, ws being the
\* weights of their instances in the order met: the weight and whether an
\* addition left the int range, until construction_fail or the last test
\* of the weight once the clause is built
RECURSIVE weighOthers(_, _, _, _, _)
weighOthers(weightLimit, ws, i, weight, exceeded) ==
  IF i > Len(ws)
  THEN [weight |-> weight, exceeded |-> exceeded,
        fail |-> weightLimit # -1 /\ weight > weightLimit]
  ELSE IF weightLimit = -1
  THEN weighOthers(weightLimit, ws, i + 1, weight, exceeded)
  ELSE IF addToWeight(weight, ws[i]) > weightLimit
  THEN [weight |-> addToWeight(weight, ws[i]),
        exceeded |-> exceeded \/ exceedsInt(weight, ws[i]), fail |-> TRUE]
  ELSE weighOthers(weightLimit, ws, i + 1, addToWeight(weight, ws[i]),
                   exceeded \/ exceedsInt(weight, ws[i]))

\* the loops of earlyWeightLimitCheck over the other literals of the two
\* premises: the sum of their weights before the substitution is applied
RECURSIVE nonInvolvedLiteralWLB(_, _, _)
nonInvolvedLiteralWLB(others, i, sum) ==
  IF i > Len(others) THEN sum
  ELSE nonInvolvedLiteralWLB(others, i + 1, addToWeight(sum, others[i].weight))

\* rhsSWeight - lhsSWeight
rwrBalance(rw) == rw.rhsSWeight - rw.lhsSWeight

\* the occurrences of rwTerm in rwLit, not counted when the balance is 0
rwrCnt(rw) == IF rwrBalance(rw) = 0 THEN 0 ELSE rw.occurrences

\* Superposition::earlyWeightLimitCheck once remainingLimit is known: FALSE
\* when the conclusion is discarded before anything is built
earlyWeightLimitCheckFrom(remainingLimit, rw) ==
  IF remainingLimit < rw.eqRHSWeight THEN FALSE
  ELSE IF rwrBalance(rw) >= 0 /\ rw.rwLitWeight + rwrBalance(rw) > remainingLimit THEN FALSE
  ELSE IF rwrCnt(rw) > 1 /\ rw.rwLitWeight + rwrBalance(rw) * rwrCnt(rw) > remainingLimit THEN FALSE
  ELSE rw.rwLitSWeight + rwrBalance(rw) * rwrCnt(rw) <= remainingLimit

\* Superposition::earlyWeightLimitCheck
earlyWeightLimitCheck(weightLimit, rw, rwOthers, eqOthers) ==
  earlyWeightLimitCheckFrom(weightLimit - nonInvolvedLiteralWLB(rwOthers \o eqOthers, 1, 0), rw)

\* currAfter->weight() of the other literals in the order met
instanceWeights(others) == [i \in 1..Len(others) |-> others[i].instanceWeight]

\* performSuperposition as far as the weight goes, from getWeightLimit on:
\* the early check under a weight limit, then the construction of the
\* clause.  rw holds the weights of the rewriting (the two sides of the
\* equality and the rewritten literal, before and after the substitution,
\* and that of tgtLitS), rwOthers and eqOthers the weights of the other
\* literals of the premises and of their instances
weighConclusion(weightLimit, rw, rwOthers, eqOthers) ==
  IF weightLimit # -1 /\ ~earlyWeightLimitCheck(weightLimit, rw, rwOthers, eqOthers)
  THEN [early |-> TRUE, exceeded |-> FALSE, fail |-> TRUE]
  ELSE [early |-> FALSE,
        weight |-> weighOthers(weightLimit, instanceWeights(rwOthers \o eqOthers), 1,
                               rw.tgtLitSWeight, FALSE).weight,
        exceeded |-> weighOthers(weightLimit, instanceWeights(rwOthers \o eqOthers), 1,
                                 rw.tgtLitSWeight, FALSE).exceeded,
        fail |-> weighOthers(weightLimit, instanceWeights(rwOthers \o eqOthers), 1,
                             rw.tgtLitSWeight, FALSE).fail]

\* the number of literals of a premise besides the one used
MaxOthers == 2

\* the other literals of a premise, each with its weight and the weight of
\* its instance: an instance is no lighter than the literal, and is heavier
\* only for a literal with a variable, which weighs 2 or more
WgtLiterals ==
  {[weight |-> 1, instanceWeight |-> 1], [weight |-> 2, instanceWeight |-> 3],
   [weight |-> 2, instanceWeight |-> INT_MAX - 1], [weight |-> 2, instanceWeight |-> INT_MAX]}
WgtOthers == UNION {SeqsOfLen(WgtLiterals, n) : n \in 0..MaxOthers}
\* the weight limit: none (-1), or a limit
WgtLimits == {-1, 4, 8}

\* the weights of a rewriting <<eqRHS, eqLHS instance, eqRHS instance,
\* rwLit, rwLit instance, occurrences of rwTerm in rwLit, occurrences of
\* its instance in the instance of rwLit>>: instances are no lighter, and
\* the literals hold the occurrences of the rewritten term
WgtShapes ==
  {x \in {1, 3} \X {1, 2, INT_MAX - 1} \X {1, 3} \X {3} \X {3, 7, INT_MAX} \X {1, 2} \X {1, 2} :
     /\ x[3] >= x[1]
     /\ x[5] >= x[4]
     /\ x[7] >= x[6]
     /\ x[2] <= (x[5] - 1) \div x[7]
     /\ (x[5] = INT_MAX => x[3] <= x[2])}

\* tgtLitS is the instance of rwLit with every occurrence of the instance
\* of rwTerm replaced by the instance of eqRHS
WgtRewrites ==
  {[eqRHSWeight |-> x[1], lhsSWeight |-> x[2], rhsSWeight |-> x[3], rwLitWeight |-> x[4],
    rwLitSWeight |-> x[5], occurrences |-> x[6],
    tgtLitSWeight |-> x[5] + (x[3] - x[2]) * x[7]] : x \in WgtShapes}

WgtStart == [op |-> "none"]
WgtIdle == weighing = WgtStart

\* performSuperposition builds the conclusion of two premises
WeighSuperposition(weightLimit, rw, rwOthers, eqOthers) ==
  /\ weighing.op = "none"
  /\ weighing' = [op |-> "superposition", weightLimit |-> weightLimit, rw |-> rw,
                  rwOthers |-> rwOthers, eqOthers |-> eqOthers,
                  res |-> weighConclusion(weightLimit, rw, rwOthers, eqOthers),
                  discarded |-> weighConclusion(weightLimit, rw, rwOthers, eqOthers).fail]
  /\ UNCHANGED notWgtVars

\* the conclusion, or 0, is returned
WgtReturn ==
  /\ weighing.op # "none"
  /\ weighing' = WgtStart
  /\ UNCHANGED notWgtVars

WgtNext ==
  \/ /\ WgtIdle
     /\ \E weightLimit \in WgtLimits, rw \in WgtRewrites, rwOthers \in WgtOthers, eqOthers \in WgtOthers :
          WeighSuperposition(weightLimit, rw, rwOthers, eqOthers)
  \/ WgtReturn

\* C23: whenever adding a literal weight to the weight of the clause being
\* built would leave the int range, the weight saturates (it does not wrap
\* around) and the clause is discarded as over the limit
C23_WeightSaturatesAndDiscards ==
  (weighing.op = "superposition" /\ weighing.weightLimit # -1 /\ weighing.res.exceeded) =>
     /\ weighing.res.weight = INT_MAX
     /\ weighing.discarded

(***************************************************************************)
(* RobSubstitution::AssocIterator: the iterator over the unifiers or the   *)
(* matches of two commutative literals (Kernel/RobSubstitution.cpp).  The  *)
(* iterator is it = [state, used, bdata, bank, next, ...]: its fields, and *)
(* the bank and the counter of the substitution it works on.               *)
(***************************************************************************)
\* AssocIterator::State
FIRST == 0
NEXT_STRAIGHT == 0
NEXT_REVERSED == 1
NEXT_CLEANUP == 2
FINISHED == 3

\* what RobSubstitution::unify and match leave of an attempt s of their
\* loop: [ok, bank, log, assertOk].  A failed attempt is undone; the
\* bindings of a successful one are committed to the BacktrackData that is
\* recording, the latest first
attempted(s, assertOk) ==
  IF s.mismatch
  THEN [ok |-> FALSE, bank |-> backtrack(s.bank, s.log), log |-> <<>>, assertOk |-> assertOk]
  ELSE [ok |-> TRUE, bank |-> s.bank, log |-> s.log, assertOk |-> assertOk]
matchAttempt(s) == attempted(s, s.assertOk)

\* UnificationFn::associate and MatchingFn::associate on two terms:
\* unify or match, and the bindings committed
associate(fn, bk, t1, i1, t2, i2) ==
  IF sameTermContent(TermSpec(t1, i1), TermSpec(t2, i2))
  THEN [ok |-> TRUE, bank |-> bk, log |-> <<>>, assertOk |-> TRUE]
  ELSE IF fn = "unify"
  THEN attempted(unifyLoop([bank |-> bk, log |-> <<>>, toDo |-> <<>>, subterms |-> <<>>,
                              enc |-> {}, mismatch |-> FALSE, pend |-> 0],
                             TermSpec(t1, i1), TermSpec(t2, i2)), TRUE)
  ELSE matchAttempt(matchLoop([bank |-> bk, log |-> <<>>, subterms |-> <<>>, mismatch |-> FALSE,
                               assertOk |-> TRUE], Ptr(<<t1>>, 1), Ptr(<<t2>>, 1), i1, i2))

\* a literal as the term unifyArgs and matchArgs work on
literalTerm(l) == Fn(l.pred, l.args)

\* the iterator after an association a: its bindings are in the bank and,
\* if it succeeded, recorded in _bdata
associated(it, a) ==
  [it EXCEPT !.bank = a.bank, !.bdata = a.log \o @, !.assertOk = @ /\ a.assertOk]

\* backtrack that forgets the recorded bindings without undoing them
assocForget(it) == [it EXCEPT !.bdata = <<>>]

\* AssocIterator::backtrack
assocBacktrack(it) == [it EXCEPT !.bank = backtrack(it.bank, it.bdata), !.bdata = <<>>]

\* hasNext, case NEXT_CLEANUP: the previous match is undone
hasNextCleanup(it) == [assocBacktrack(it) EXCEPT !.state = FINISHED]

\* hasNext, case NEXT_REVERSED after t11 and t22 are associated (a1)
hasNextReversedSecond(it, a2) ==
  IF a2.ok THEN [associated(it, a2) EXCEPT !.state = NEXT_CLEANUP]
  ELSE hasNextCleanup(associated(it, a2))

hasNextReversedFirst(it, a1) ==
  IF a1.ok
  THEN hasNextReversedSecond(associated(it, a1),
                             associate(it.fn, a1.bank, it.l1.args[2], it.l1i, it.l2.args[1], it.l2i))
  ELSE hasNextCleanup(associated(it, a1))

\* hasNext, case NEXT_REVERSED
hasNextReversed(it) ==
  hasNextReversedFirst(it, associate(it.fn, it.bank, it.l1.args[1], it.l1i, it.l2.args[2], it.l2i))

\* hasNext, case NEXT_STRAIGHT after the literals are associated (a)
hasNextStraight(it, a) ==
  IF a.ok THEN [associated(it, a) EXCEPT !.state = NEXT_REVERSED]
  ELSE hasNextReversed(associated(it, a))

\* hasNext, the switch; tried notes whether every attempt started from the
\* bindings the substitution had when the iterator was created
hasNextSwitch(it) ==
  IF it.state = NEXT_STRAIGHT
  THEN hasNextStraight([it EXCEPT !.tried = @ /\ it.bank = it.bank0],
                       associate(it.fn, it.bank, literalTerm(it.l1), it.l1i,
                                 literalTerm(it.l2), it.l2i))
  ELSE IF it.state = NEXT_REVERSED
  THEN hasNextReversed([it EXCEPT !.tried = @ /\ it.bank = it.bank0])
  ELSE hasNextCleanup(it)

\* AssocIterator::hasNext: the iterator afterwards; the result is
\* state # FINISHED
hasNext(it) ==
  IF it.state = FINISHED THEN it
  ELSE IF ~it.used THEN it
  ELSE hasNextSwitch(IF it.state # FIRST
                     THEN assocBacktrack([it EXCEPT !.used = FALSE])
                     ELSE [it EXCEPT !.used = FALSE])

\* AssocIterator::~AssocIterator
destroyAssocIterator(it) ==
  IF it.state # FINISHED /\ it.state # FIRST THEN assocBacktrack(it) ELSE it

\* the bindings deref makes during an apply while _bdata is recording: the
\* variables that had no binding before
RECURSIVE derefRecords(_)
derefRecords(vs) ==
  IF vs = {} THEN <<>>
  ELSE <<[v |-> CHOOSE v \in vs : TRUE, found |-> FALSE,
          old |-> VarTermSpec(CHOOSE v \in vs : TRUE)]>>
         \o derefRecords(vs \ {CHOOSE v \in vs : TRUE})
applied(it, r) ==
  [it EXCEPT !.bank = r.bank, !.next = r.next,
             !.bdata = derefRecords((DOMAIN r.bank) \ (DOMAIN it.bank)) \o @]

\* the iterators that may follow one another
MaxIterators == 1

AssocX == Var(0)
AssocY == Var(1)
AssocA == Fn(FunA, <<>>)
AssocB == Fn(FunB, <<>>)
AssocTerms == {AssocX, AssocY, AssocA, Fn(FunF, <<AssocX>>)}
\* commutative literals: equalities
AssocLiterals ==
  {Lit(PredEq, TRUE, <<AssocX, AssocA>>), Lit(PredEq, TRUE, <<AssocA, AssocX>>),
   Lit(PredEq, TRUE, <<AssocX, AssocY>>), Lit(PredEq, TRUE, <<AssocA, AssocB>>),
   Lit(PredEq, TRUE, <<Fn(FunF, <<AssocX>>), AssocY>>),
   Lit(PredEq, TRUE, <<AssocB, Fn(FunF, <<AssocA>>)>>)}

AssocStart ==
  [phase |-> "none", bank |-> EmptyBank, next |-> 0, made |-> 0]
AssocIdle == assoc = AssocStart

\* a unification on the substitution while no iterator works on it
AssocUnify(t1, t2) ==
  /\ assoc.phase = "none"
  /\ assoc.made = 0
  /\ assoc.bank = EmptyBank
  /\ \E u \in {unify(assoc.bank, TermSpec(t1, QUERY_BANK), TermSpec(t2, RESULT_BANK))} :
        /\ u.ok
        /\ assoc' = [assoc EXCEPT !.bank = u.bank]
  /\ UNCHANGED notAssocVars

\* AssocIterator::AssocIterator
AssocCreate(fn, l1, l2) ==
  /\ assoc.phase = "none"
  /\ assoc.made < MaxIterators
  \* matching is used on an instance whose variables are not bound
  /\ fn = "match" => \A v \in DOMAIN assoc.bank : v.index # RESULT_BANK
  /\ assoc' = [phase |-> "live", bank |-> assoc.bank, next |-> assoc.next,
               made |-> assoc.made + 1, fn |-> fn, l1 |-> l1, l1i |-> QUERY_BANK,
               l2 |-> l2, l2i |-> RESULT_BANK, state |-> FIRST, used |-> TRUE,
               bdata |-> <<>>, bank0 |-> assoc.bank, tried |-> TRUE, assertOk |-> TRUE,
               last |-> "create", yielded |-> 0]
  /\ UNCHANGED notAssocVars

\* AssocIterator::hasNext, called where the assertions of match hold
AssocHasNext ==
  /\ assoc.phase = "live"
  /\ \E it \in {hasNext(assoc)} :
        /\ it.assertOk
        /\ assoc' = [it EXCEPT !.last = "hasNext"]
  /\ UNCHANGED notAssocVars

\* AssocIterator::next, after hasNext has returned true
AssocNext ==
  /\ assoc.phase = "live"
  /\ assoc.last = "hasNext"
  /\ assoc.state # FINISHED
  /\ assoc' = [assoc EXCEPT !.used = TRUE, !.last = "next",
                            !.yielded = IF assoc.used THEN @ ELSE @ + 1]
  /\ UNCHANGED notAssocVars

\* the substitution got from next is applied to a term
AssocApply(t, index) ==
  /\ assoc.phase = "live"
  /\ assoc.last \in {"next", "apply"}
  /\ assoc' = [applied(assoc, apply(assoc.bank, assoc.next, t, index)) EXCEPT !.last = "apply"]
  /\ UNCHANGED notAssocVars

\* the iterator is destroyed
AssocDestroy ==
  /\ assoc.phase = "live"
  /\ assoc' = [destroyAssocIterator(assoc) EXCEPT !.phase = "destroyed"]
  /\ UNCHANGED notAssocVars

\* the substitution is used on
AssocRelease ==
  /\ assoc.phase = "destroyed"
  /\ assoc' = [phase |-> "none", bank |-> assoc.bank, next |-> assoc.next, made |-> assoc.made]
  /\ UNCHANGED notAssocVars

AssocStep ==
  \/ \E t1 \in AssocTerms, t2 \in AssocTerms : AssocUnify(t1, t2)
  \/ \E fn \in {"unify", "match"}, l1 \in AssocLiterals, l2 \in AssocLiterals : AssocCreate(fn, l1, l2)
  \/ AssocHasNext
  \/ AssocNext
  \/ \E t \in {AssocX, AssocY}, index \in RobBanks : AssocApply(t, index)
  \/ AssocDestroy
  \/ AssocRelease

\* C25: every association the iterator tries starts from the bindings the
\* substitution had when the iterator was created (the substitution
\* yielded before is undone), and once hasNext has returned false or the
\* iterator is destroyed, in whatever state, the bindings are those again
\* and no recorded binding is left
C25_AssocIteratorRestoresBindings ==
  /\ assoc.phase = "live" => assoc.tried
  /\ (\/ assoc.phase = "destroyed"
      \/ (assoc.phase = "live" /\ assoc.state = FINISHED)) =>
        /\ assoc.tried
        /\ assoc.bank = assoc.bank0
        /\ assoc.bdata = <<>>

\* an iterator over a substitution that had bindings before was destroyed
\* after it had yielded a unifier that bound variables, the unifier had
\* been applied, and the reversed pairing had been tried as well
C25_Witness ==
  /\ assoc.phase = "destroyed"
  /\ assoc.state = NEXT_CLEANUP
  /\ assoc.yielded = 2
  /\ assoc.last = "apply"
  /\ assoc.bank0 # EmptyBank
  /\ assoc.bank = assoc.bank0

(***************************************************************************)
(* Stack::StableDelIterator (Lib/Stack.hpp).  The iterator is              *)
(* it = [cells, cursor, reader, writer, last, ...]: the array of the       *)
(* stack, the stack's cursor and the two pointers of the iterator, as      *)
(* offsets from _stack; last is the VDEBUG field _last, by which the code  *)
(* asserts the order of the calls.                                         *)
(***************************************************************************)
\* the elements of the stack, s[0] first
stackContent(it) == SubSeq(it.cells, 1, it.cursor)

\* *p = v
store(cells, p, v) == [cells EXCEPT ![p + 1] = v]

\* StableDelIterator::hasNext: the iterator afterwards
sdiHasNext(it) ==
  IF it.reader = it.cursor
  THEN IF it.reader # it.writer
       THEN [it EXCEPT !.cursor = it.writer, !.reader = it.writer, !.last = 2, !.res = FALSE]
       ELSE [it EXCEPT !.last = 2, !.res = FALSE]
  ELSE [it EXCEPT !.last = 2, !.res = TRUE]

\* StableDelIterator::next: the iterator afterwards; the element returned
\* is *_reader
sdiNext(it) ==
  [it EXCEPT !.cells = IF it.reader # it.writer
                       THEN store(it.cells, it.writer, it.cells[it.reader + 1])
                       ELSE @,
             !.reader = @ + 1, !.writer = @ + 1, !.last = 1]

\* StableDelIterator::del
sdiDel(it) == [it EXCEPT !.writer = @ - 1, !.last = 3]

\* replace that writes where the element last returned was put
replaceLast(it, val) == [it EXCEPT !.cells = store(it.cells, it.writer - 1, val)]

\* StableDelIterator::replace
sdiReplace(it, val) == [it EXCEPT !.cells = store(it.cells, it.writer, val)]

\* StableDelIterator::~StableDelIterator, the loop
RECURSIVE sdiDrain(_)
sdiDrain(it) == IF sdiHasNext(it).res THEN sdiDrain(sdiNext(sdiHasNext(it))) ELSE sdiHasNext(it)

\* StableDelIterator::~StableDelIterator
sdiDestroy(it) == IF it.reader # it.writer THEN sdiDrain(it) ELSE it

\* the stacks traversed
MaxStack == 3
StackValues == {1, 2, 3}
ReplaceValues == {2, 9}
StackInputs == UNION {[1..n -> StackValues] : n \in 0..MaxStack}

StkStart == [phase |-> "none"]
StkIdle == stk = StkStart

\* StableDelIterator::StableDelIterator on a stack with the elements s;
\* visited is what the calls made so far ask the visited part to become
StkCreate(s) ==
  /\ stk.phase = "none"
  /\ stk' = [phase |-> "live", cells |-> s, cursor |-> Len(s), reader |-> 0, writer |-> 0,
             last |-> 0, res |-> FALSE, orig |-> s, visited |-> <<>>, nread |-> 0,
             deleted |-> FALSE, replaced |-> FALSE]
  /\ UNCHANGED notStkVars

StkHasNext ==
  /\ stk.phase = "live"
  /\ stk' = sdiHasNext(stk)
  /\ UNCHANGED notStkVars

\* next, where its assertions hold
StkIterNext ==
  /\ stk.phase = "live"
  /\ stk.reader < stk.cursor
  /\ stk.last = 2
  /\ stk' = [sdiNext(stk) EXCEPT !.visited = Append(@, stk.cells[stk.reader + 1]),
                                 !.nread = @ + 1]
  /\ UNCHANGED notStkVars

\* del, where its assertions hold
StkDel ==
  /\ stk.phase = "live"
  /\ stk.writer <= stk.cursor
  /\ stk.writer >= 0
  /\ stk.last = 1
  /\ stk' = [sdiDel(stk) EXCEPT !.visited = SubSeq(@, 1, Len(@) - 1), !.deleted = TRUE]
  /\ UNCHANGED notStkVars

\* replace, where its assertions hold
StkReplace(val) ==
  /\ stk.phase = "live"
  /\ stk.writer < stk.cursor
  /\ stk.writer >= 0
  /\ stk.last = 1
  /\ stk' = [sdiReplace(stk, val) EXCEPT !.visited = [@ EXCEPT ![Len(@)] = val],
                                         !.replaced = TRUE]
  /\ UNCHANGED notStkVars

\* the iterator is destroyed, at the end of the traversal or before
StkDestroy ==
  /\ stk.phase = "live"
  /\ stk' = [sdiDestroy(stk) EXCEPT !.phase = "destroyed"]
  /\ UNCHANGED notStkVars

\* the stack is used on
StkRelease ==
  /\ stk.phase = "destroyed"
  /\ stk' = StkStart
  /\ UNCHANGED notStkVars

StkNext ==
  \/ \E s \in StackInputs : StkCreate(s)
  \/ StkHasNext
  \/ StkIterNext
  \/ StkDel
  \/ \E val \in ReplaceValues : StkReplace(val)
  \/ StkDestroy
  \/ StkRelease

\* the traversal is over: hasNext has returned false or the iterator is
\* destroyed
traversalOver == stk.phase = "destroyed" \/ (stk.phase = "live" /\ stk.last = 2 /\ ~stk.res)

\* what the stack is to hold: the visited elements as del and replace have
\* left them, then the elements not visited
expectedContent == stk.visited \o SubSeq(stk.orig, stk.nread + 1, Len(stk.orig))

\* C26: when a traversal with StableDelIterator is over, the stack holds
\* its original elements in their order, without the elements on which
\* del() was called after next() returned them and with v in the place of
\* those on which replace(v) was called
C26_DelAndReplaceActOnLastReturned ==
  traversalOver => stackContent(stk) = expectedContent

(***************************************************************************)
(* ReferenceCounter (Lib/ReferenceCounter.hpp).                            *)
(* s = [obj, counter, allocated, undefined]: for each object the counter   *)
(* it points to (NoCounter when the object does not exist), for each       *)
(* counter the value in its memory and whether it is allocated, and        *)
(* whether a call has used a counter that was deallocated.  Such a use is  *)
(* undefined: the memory then holds any value.  An object whose counter    *)
(* was deallocated keeps its pointer, and the allocator may hand the same  *)
(* memory to a later object.  The allocator keeps the link of its free     *)
(* list in the deallocated memory itself, and a dec that leaves 0 there    *)
(* deallocates it a second time: after such a use the free list can hold   *)
(* any counter, one in use included, once or twice.                        *)
(***************************************************************************)
\* the objects and the counters there can be
MaxObjects == 3
RcObjects == 1..MaxObjects
RcCounters == 1..MaxObjects
NoCounter == 0

\* the values a deallocated counter can be left with by a use of it, or
\* be read as
RcJunk == {0, 1, 7}

\* ALLOC_KNOWN: the counters the allocator can hand out: those not in use
\* and, once a deallocated counter was written to or deallocated again,
\* any counter
freeCounters(s) ==
  IF s.undefined THEN RcCounters ELSE {k \in RcCounters : ~s.allocated[k]}

\* ReferenceCounter::inc; on a deallocated counter the outcome is junk
inc(s, o, junk) ==
  IF s.allocated[s.obj[o]]
  THEN [s EXCEPT !.counter[s.obj[o]] = @ + 1]
  ELSE [s EXCEPT !.counter[s.obj[o]] = junk, !.undefined = TRUE]

\* ReferenceCounter::dec; a counter that reaches 0 is deallocated; on a
\* deallocated counter the outcome is junk
dec(s, o, junk) ==
  IF s.allocated[s.obj[o]]
  THEN [s EXCEPT !.counter[s.obj[o]] = @ - 1,
                 !.allocated[s.obj[o]] = s.counter[s.obj[o]] - 1 # 0]
  ELSE [s EXCEPT !.counter[s.obj[o]] = junk, !.undefined = TRUE]

\* ReferenceCounter::ReferenceCounter(); k is the counter the allocator
\* hands out, which other objects can hold after a double deallocation
rcConstruct(s, o, k) ==
  [s EXCEPT !.obj[o] = k, !.counter[k] = 1, !.allocated[k] = TRUE]

\* ReferenceCounter::ReferenceCounter(const ReferenceCounter& rc)
rcCopy(s, o, rc, junk) == inc([s EXCEPT !.obj[o] = s.obj[rc]], o, junk)

\* ReferenceCounter::~ReferenceCounter
rcDestroy(s, o, junk) == [dec(s, o, junk) EXCEPT !.obj[o] = NoCounter]

\* ReferenceCounter::operator=, self-assignment included: dec, then
\* _counter=rc._counter, then inc
rcAssign(s, o, rc, junk1, junk2) ==
  inc([dec(s, o, junk1) EXCEPT !.obj[o] = dec(s, o, junk1).obj[rc]], o, junk2)

\* isLast that compares the counter with one
isOnlyReference(s, o, junk) ==
  IF s.allocated[s.obj[o]] THEN s.counter[s.obj[o]] = 1 ELSE junk = 1

\* ReferenceCounter::isLast; a deallocated counter reads as junk
isLast(s, o, junk) ==
  IF s.allocated[s.obj[o]] THEN s.counter[s.obj[o]] = 0 ELSE junk = 0

\* the objects that share the counter of o, o included
liveCopies(s, o) == {p \in RcObjects : s.obj[p] = s.obj[o]}

RcStart ==
  [obj |-> [o \in RcObjects |-> NoCounter], counter |-> [k \in RcCounters |-> 0],
   allocated |-> [k \in RcCounters |-> FALSE], undefined |-> FALSE,
   last |-> [op |-> "none"]]
RcIdle == refs = RcStart

rcDone(s, o) == [s EXCEPT !.last = [op |-> o]]

\* an object is constructed
RcConstruct(o, k) ==
  /\ refs.obj[o] = NoCounter
  /\ k \in freeCounters(refs)
  /\ refs' = rcDone(rcConstruct(refs, o, k), "construct")
  /\ UNCHANGED notRcVars

\* an object is constructed as a copy of another
RcCopy(o, rc, junk) ==
  /\ refs.obj[o] = NoCounter
  /\ refs.obj[rc] # NoCounter
  /\ refs' = rcDone(rcCopy(refs, o, rc, junk), "copy")
  /\ UNCHANGED notRcVars

\* an object is assigned an object, possibly itself
RcAssign(o, rc, junk1, junk2) ==
  /\ refs.obj[o] # NoCounter
  /\ refs.obj[rc] # NoCounter
  /\ refs' = rcDone(rcAssign(refs, o, rc, junk1, junk2), "assign")
  /\ UNCHANGED notRcVars

\* an object is destroyed
RcDestroy(o, junk) ==
  /\ refs.obj[o] # NoCounter
  /\ refs' = rcDone(rcDestroy(refs, o, junk), "destroy")
  /\ UNCHANGED notRcVars

\* isLast is called on an object
RcIsLast(o, junk) ==
  /\ refs.obj[o] # NoCounter
  /\ refs' = [refs EXCEPT !.undefined = @ \/ ~refs.allocated[refs.obj[o]],
                          !.last = [op |-> "isLast", o |-> o, res |-> isLast(refs, o, junk),
                                    copies |-> Cardinality(liveCopies(refs, o))]]
  /\ UNCHANGED notRcVars

\* the junk of a call matters only when the call uses a deallocated counter
RcNext ==
  \/ \E o \in RcObjects, k \in RcCounters : RcConstruct(o, k)
  \/ \E o \in RcObjects, rc \in RcObjects, junk \in RcJunk : RcCopy(o, rc, junk)
  \/ \E o \in RcObjects, rc \in RcObjects, junk1 \in RcJunk, junk2 \in RcJunk :
       RcAssign(o, rc, junk1, junk2)
  \/ \E o \in RcObjects, junk \in RcJunk : RcDestroy(o, junk)
  \/ \E o \in RcObjects, junk \in RcJunk : RcIsLast(o, junk)

\* C29: as long as no call has used a deallocated counter, isLast returns
\* true exactly when the object is the only live copy that shares its
\* counter, and false when there is another copy
C29_IsLastIffOnlyLiveCopy ==
  (refs.last.op = "isLast" /\ ~refs.undefined) =>
     (refs.last.res <=> refs.last.copies = 1)

(***************************************************************************)
(* Int::safeMultiply (Lib/Int.hpp) for INT = int, 32 bits wide.  Every     *)
(* value below is kept between INT_MIN and INT_MAX.                        *)
(***************************************************************************)
\* numeric_limits<int>::min()
INT_MIN == (-INT_MAX) - 1

\* the two 16-bit halves of the 32 bits of an int
lowHalf(x) == x % 65536
highHalf(x) == (x \div 65536) % 65536

\* the low 16 bits of the product of two 16-bit numbers
lowOfProduct(x, y) == ((((x \div 256) * y) % 256) * 256 + (x % 256) * y) % 65536

\* the bits 16 to 31 of the product of two 16-bit numbers
highOfProduct(x, y) ==
  (((x \div 256) * y) \div 256
   + ((((x \div 256) * y) % 256) * 256 + (x % 256) * y) \div 65536) % 65536

\* the int with the given halves
fromHalves(high, low) ==
  IF high >= 32768 THEN (high - 65536) * 65536 + low ELSE high * 65536 + low

\* arg1*arg2 as a build that wraps stores it: the low 32 bits of the product
wrapMultiply(arg1, arg2) ==
  fromHalves((highOfProduct(lowHalf(arg1), lowHalf(arg2))
              + lowOfProduct(highHalf(arg1), lowHalf(arg2))
              + lowOfProduct(lowHalf(arg1), highHalf(arg2))) % 65536,
             lowOfProduct(lowHalf(arg1), lowHalf(arg2)))

\* arg1 < 0 ? -arg1 : arg1, for arg1 other than min()
absOf(arg1) == IF arg1 < 0 THEN -arg1 ELSE arg1

\* the mathematical product arg1*arg2 is an int
productFits(arg1, arg2) ==
  IF arg1 = 0 \/ arg2 = 0 THEN TRUE
  ELSE IF arg1 = INT_MIN THEN arg2 = 1
  ELSE IF arg2 = INT_MIN THEN arg1 = 1
  ELSE IF (arg1 < 0) = (arg2 < 0) THEN absOf(arg1) <= INT_MAX \div absOf(arg2)
  ELSE \/ absOf(arg1) <= INT_MAX \div absOf(arg2)
       \/ /\ absOf(arg1) = (INT_MAX \div absOf(arg2)) + 1
          /\ INT_MAX % absOf(arg2) = absOf(arg2) - 1

\* the values INT mres = arg1*arg2 can have: the product if it is an int;
\* otherwise the multiplication overflows, which is undefined, and the
\* build may leave any value, the wrapped product among them
mresOutcomes(arg1, arg2) ==
  IF productFits(arg1, arg2) THEN {wrapMultiply(arg1, arg2)}
  ELSE {wrapMultiply(arg1, arg2), 0, 1, -1, INT_MIN, INT_MAX}

\* Int::sgn
sgn(val) == (IF 0 < val THEN 1 ELSE 0) - (IF val < 0 THEN 1 ELSE 0)

\* x / y of C++ (rounding towards zero) for y other than 0 and min()
truncDiv(x, y) ==
  IF x >= 0
  THEN (IF y < 0 THEN -(x \div absOf(y)) ELSE x \div absOf(y))
  ELSE IF y < 0
  THEN ((-(x + 1)) \div absOf(y)) + (IF (-(x + 1)) % absOf(y) = absOf(y) - 1 THEN 1 ELSE 0)
  ELSE -(((-(x + 1)) \div absOf(y)) + (IF (-(x + 1)) % absOf(y) = absOf(y) - 1 THEN 1 ELSE 0))

\* the test of lines 226-228, in the order in which it is evaluated
evilCase(arg1, arg2, mres) ==
  IF mres = INT_MIN /\ arg1 = -1 THEN TRUE
  ELSE IF sgn(arg1) * sgn(arg2) # sgn(mres) THEN TRUE
  ELSE arg1 # 0 /\ truncDiv(mres, arg1) # arg2

\* safeMultiply whose test of the absolute values allows for products
\* down to min()
safeMultiplyExact(arg1, arg2, res, mres) ==
  IF productFits(arg1, arg2) THEN [ret |-> TRUE, res |-> mres] ELSE [ret |-> FALSE, res |-> res]

\* Int::safeMultiply: [ret, res], res being the referenced variable
\* afterwards; mres is the value of arg1*arg2
safeMultiply(arg1, arg2, res, mres) ==
  IF arg1 = 0 \/ arg1 = 1 \/ arg2 = 0 \/ arg2 = 1 THEN [ret |-> TRUE, res |-> mres]
  ELSE IF arg1 = INT_MIN \/ arg2 = INT_MIN THEN [ret |-> FALSE, res |-> res]
  ELSE IF absOf(arg1) > INT_MAX \div absOf(arg2) THEN [ret |-> FALSE, res |-> res]
  ELSE IF evilCase(arg1, arg2, mres) THEN [ret |-> FALSE, res |-> res]
  ELSE [ret |-> TRUE, res |-> mres]

\* the arguments multiplied
MulValues ==
  {INT_MIN, INT_MIN + 1, -1073741824, -46341, -46340, -3, -2, -1, 0, 1, 2, 3,
   46340, 46341, 65536, 1073741823, 1073741824, INT_MAX}

MulStart == [op |-> "none", res |-> 0]
MulIdle == arith = MulStart

\* safeMultiply(arg1, arg2, res) is called
SafeMultiply(arg1, arg2, mres) ==
  /\ arith.op = "none"
  /\ arith' = [op |-> "safeMultiply", arg1 |-> arg1, arg2 |-> arg2, before |-> arith.res,
               ret |-> safeMultiply(arg1, arg2, arith.res, mres).ret,
               res |-> safeMultiply(arg1, arg2, arith.res, mres).res]
  /\ UNCHANGED notMulVars

\* the call returns
MulReturn ==
  /\ arith.op = "safeMultiply"
  /\ arith' = [op |-> "none", res |-> arith.res]
  /\ UNCHANGED notMulVars

MulNext ==
  \/ \E arg1 \in MulValues, arg2 \in MulValues :
       \E mres \in mresOutcomes(arg1, arg2) : SafeMultiply(arg1, arg2, mres)
  \/ MulReturn

\* C30: safeMultiply returns true and stores arg1*arg2 in res exactly when
\* the mathematical product is an int, and returns false exactly when it
\* is not
C30_SafeMultiplyExact ==
  arith.op = "safeMultiply" =>
     IF productFits(arith.arg1, arith.arg2)
     THEN arith.ret /\ arith.res = arith.arg1 * arith.arg2
     ELSE ~arith.ret

(***************************************************************************)
(* Initial states and specifications: each specification runs one          *)
(* component and leaves the others idle.                                   *)
(***************************************************************************)
AllIdle ==
  /\ RobIdle
  /\ IndexIdle
  /\ SatIdle
  /\ SchedIdle
  /\ KboIdle
  /\ LitIdle
  /\ QryIdle
  /\ SelIdle
  /\ InfIdle
  /\ DemIdle
  /\ GsIdle
  /\ WgtIdle
  /\ AssocIdle
  /\ StkIdle
  /\ RcIdle
  /\ MulIdle

RobInit == AllIdle
SpecRob == RobInit /\ [][RobNext]_vars

IndexInit == AllIdle
SpecIndex == IndexInit /\ [][IndexNext]_vars

SatInit ==
  /\ RobIdle
  /\ MulIdle
  /\ RcIdle
  /\ StkIdle
  /\ AssocIdle
  /\ WgtIdle
  /\ GsIdle
  /\ DemIdle
  /\ InfIdle
  /\ SelIdle
  /\ QryIdle
  /\ LitIdle
  /\ IndexIdle
  /\ SchedIdle
  /\ KboIdle
  /\ sat = SatStart
  /\ satCfg \in [age : [SatClauses -> SatAges], weight : [SatClauses -> SatWeights],
                  maxSelWeight : [SatClauses -> SatSelWeights], gis : BOOLEAN]
SpecSat == SatInit /\ [][SatNext]_vars

SchedInit ==
  /\ RobIdle
  /\ MulIdle
  /\ RcIdle
  /\ StkIdle
  /\ AssocIdle
  /\ WgtIdle
  /\ GsIdle
  /\ DemIdle
  /\ InfIdle
  /\ SelIdle
  /\ QryIdle
  /\ LitIdle
  /\ IndexIdle
  /\ SatIdle
  /\ KboIdle
  /\ \E n \in {1, 2}, t \in {1, 2} : sched = SchedStart(n, t)
SpecSched == SchedInit /\ [][SchedNext]_vars

KboInit ==
  /\ RobIdle
  /\ MulIdle
  /\ RcIdle
  /\ StkIdle
  /\ AssocIdle
  /\ WgtIdle
  /\ GsIdle
  /\ DemIdle
  /\ InfIdle
  /\ SelIdle
  /\ QryIdle
  /\ LitIdle
  /\ IndexIdle
  /\ SatIdle
  /\ SchedIdle
  /\ \E prec \in KboPrecedences : kbo = KboStart(prec)
SpecKBO == KboInit /\ [][KboNext]_vars

LitInit ==
  /\ RobIdle
  /\ MulIdle
  /\ RcIdle
  /\ StkIdle
  /\ AssocIdle
  /\ WgtIdle
  /\ GsIdle
  /\ DemIdle
  /\ InfIdle
  /\ SelIdle
  /\ QryIdle
  /\ IndexIdle
  /\ SatIdle
  /\ SchedIdle
  /\ KboIdle
  /\ \E mode \in LiteralComparisonModes, aux \in PredicateOrders :
        litCmp = LitStart(PrecedenceOrdering(mode, aux, FunctionOrder))
SpecLit == LitInit /\ [][LitNext]_vars

MatchInit == AllIdle
SpecMatch == MatchInit /\ [][MatchNext]_vars

ApplyInit == AllIdle
SpecApply == ApplyInit /\ [][ApplyNext]_vars

QryInit == AllIdle
SpecQry == QryInit /\ [][QryNext]_vars

SelInit ==
  /\ RobIdle
  /\ MulIdle
  /\ RcIdle
  /\ StkIdle
  /\ AssocIdle
  /\ WgtIdle
  /\ GsIdle
  /\ DemIdle
  /\ InfIdle
  /\ IndexIdle
  /\ SatIdle
  /\ SchedIdle
  /\ KboIdle
  /\ LitIdle
  /\ QryIdle
  /\ \E ord \in SelOrderings, colored \in SelColorings : selection = SelStart(ord, colored)
SpecSel == SelInit /\ [][SelNext]_vars

InfInit ==
  /\ RobIdle
  /\ MulIdle
  /\ RcIdle
  /\ StkIdle
  /\ AssocIdle
  /\ WgtIdle
  /\ GsIdle
  /\ DemIdle
  /\ IndexIdle
  /\ SatIdle
  /\ SchedIdle
  /\ KboIdle
  /\ LitIdle
  /\ QryIdle
  /\ SelIdle
  /\ \E ord \in InfOrderings : infer = InfStart(ord)
SpecInf == InfInit /\ [][InfNext]_vars

DemInit ==
  /\ RobIdle
  /\ MulIdle
  /\ RcIdle
  /\ StkIdle
  /\ AssocIdle
  /\ WgtIdle
  /\ GsIdle
  /\ IndexIdle
  /\ SatIdle
  /\ SchedIdle
  /\ KboIdle
  /\ LitIdle
  /\ QryIdle
  /\ SelIdle
  /\ InfIdle
  /\ \E ord \in InfOrderings, opt \in DemOptions : demod = DemStart(ord, opt)
SpecDem == DemInit /\ [][DemNext]_vars

GsInit ==
  /\ RobIdle
  /\ MulIdle
  /\ RcIdle
  /\ StkIdle
  /\ AssocIdle
  /\ WgtIdle
  /\ IndexIdle
  /\ SatIdle
  /\ SchedIdle
  /\ KboIdle
  /\ LitIdle
  /\ QryIdle
  /\ SelIdle
  /\ InfIdle
  /\ DemIdle
  /\ \E cfg \in GsConfigs : gsub = GsStart(cfg)
SpecGs == GsInit /\ [][GsNext]_vars

WgtInit ==
  /\ RobIdle
  /\ MulIdle
  /\ RcIdle
  /\ StkIdle
  /\ AssocIdle
  /\ IndexIdle
  /\ SatIdle
  /\ SchedIdle
  /\ KboIdle
  /\ LitIdle
  /\ QryIdle
  /\ SelIdle
  /\ InfIdle
  /\ DemIdle
  /\ GsIdle
  /\ weighing = WgtStart
SpecWgt == WgtInit /\ [][WgtNext]_vars

AssocInit == AllIdle
SpecAssoc == AssocInit /\ [][AssocStep]_vars

StkInit == AllIdle
SpecStk == StkInit /\ [][StkNext]_vars

RcInit == AllIdle
SpecRc == RcInit /\ [][RcNext]_vars

MulInit == AllIdle
SpecMul == MulInit /\ [][MulNext]_vars

====
